---- MODULE Spec2Model ----
(***************************************************************************)
(* Model of the segmented transcription pipeline of the audio/video        *)
(* transcriber (React component App): the overlap stitcher, the recursive  *)
(* splitter, the batch transcription scheduler and the stage state machine *)
(* with its retry and cleanup handlers.                                    *)
(*                                                                         *)
(* Strings are sequences of one-character strings.  Times are integers in  *)
(* ticks of 1/TicksPerSec second, sizes are bytes.                         *)
(***************************************************************************)
EXTENDS Integers, Sequences, FiniteSets, TLC

VARIABLES
    \* ---- stitcher run (improvedStitchTranscriptions as a function) ----
    stIn,       \* the list of transcript pieces given to the stitcher
    stPc,       \* "in" before the call, "out" after it
    stOut,      \* the string the stitcher returned
    \* ---- splitter run (the Split stage as a function) ----
    spIn,       \* the converted audio, the size limit and the codec's probe failures
    spPc,       \* "in" before the call, "out" after it
    spOut,      \* what the Split stage produced
    \* ---- React state of the component App ----
    loaded,                 \* FFmpeg loaded?
    inputFile,              \* the selected file ("" for null)
    transcriptionResult,    \* the stitched transcript
    transcribing,           \* the busy flag of the Transcribe File button
    pipelineStep,           \* 0..4
    stepStatus,             \* status of setup, convert, split, transcribe, summarize
    intermediateData,       \* the checkpoint: convertedMp3, segments, transcripts
    segmentUrls,            \* one blob URL per segment
    selectedApi,            \* "groq" or "openai"
    groqKey,                \* API keys ("" when not set)
    openaiKey,
    autoTranscribe,         \* start a run when a recording completes
    isFromRecording,        \* the selected file comes from the recorder
    maxFileSizeMB,          \* the size limit of a segment, in MB
    isGeneratingChat,       \* a chat completion is awaited
    \* ---- the codec ----
    ffmpegRef,              \* ffmpegRef.current: an instance, 0 for a terminated one
    instances,              \* the FFmpeg instances that are not terminated
    \* ---- asynchronous execution ----
    tasks,                  \* the handler invocations in progress, each at an await
    orphans,                \* provider calls in flight whose Promise.all has rejected
    requests,               \* handler invocations the operator has caused so far
    ev                      \* the handler step that led to this state

stitchVars == <<stIn, stPc, stOut>>
splitVars == <<spIn, spPc, spOut>>
appVars == <<loaded, inputFile, transcriptionResult, transcribing, pipelineStep,
             stepStatus, intermediateData, segmentUrls, selectedApi, groqKey,
             openaiKey, autoTranscribe, isFromRecording, maxFileSizeMB,
             isGeneratingChat, ffmpegRef, instances, tasks, orphans, requests, ev>>

vars == <<stIn, stPc, stOut, spIn, spPc, spOut,
          loaded, inputFile, transcriptionResult, transcribing, pipelineStep,
          stepStatus, intermediateData, segmentUrls, selectedApi, groqKey,
          openaiKey, autoTranscribe, isFromRecording, ffmpegRef, instances,
          tasks, orphans, requests, ev>>

\* ------------------------------------------------------------------------
\* Small helpers
\* ------------------------------------------------------------------------
Min2(a, b) == IF a <= b THEN a ELSE b
Max2(a, b) == IF a >= b THEN a ELSE b
Min3(a, b, c) == Min2(a, Min2(b, c))

\* Array.prototype.slice(-n): the last n elements (all when fewer)
SliceLast(s, n) == SubSeq(s, Max2(1, Len(s) - n + 1), Len(s))
\* Array.prototype.slice(0, n): the first n elements
SliceFirst(s, n) == SubSeq(s, 1, Min2(n, Len(s)))
\* Array.prototype.slice(n): everything after the first n elements
SliceFrom(s, n) == SubSeq(s, n + 1, Len(s))

\* ------------------------------------------------------------------------
\* String primitives of JavaScript used by the stitcher
\* ------------------------------------------------------------------------
\* the characters matched by \s that the model's texts contain
Whitespace == {" ", "\n"}

\* the letters of the model's texts, lower case and upper case
LowerLetters == <<"a", "b", "c", "d", "e", "f", "g", "h", "i", "j">>
UpperLetters == <<"A", "B", "C", "D", "E", "F", "G", "H", "I", "J">>

UpperToLower == [c \in {UpperLetters[k] : k \in DOMAIN UpperLetters} |->
                   LowerLetters[CHOOSE k \in DOMAIN UpperLetters : UpperLetters[k] = c]]

\* String.prototype.toLowerCase
toLowerCase(s) == [i \in 1..Len(s) |->
                     IF s[i] \in DOMAIN UpperToLower THEN UpperToLower[s[i]] ELSE s[i]]

RECURSIVE trimStart(_)
trimStart(s) == IF s # <<>> /\ Head(s) \in Whitespace THEN trimStart(Tail(s)) ELSE s

RECURSIVE trimEnd(_)
trimEnd(s) == IF s # <<>> /\ s[Len(s)] \in Whitespace
              THEN trimEnd(SubSeq(s, 1, Len(s) - 1)) ELSE s

\* String.prototype.trim
trim(s) == trimEnd(trimStart(s))

\* String.prototype.split(/\s+/): cut at every maximal run of whitespace; a
\* leading or trailing run leaves an empty first or last token, and the empty
\* string gives one empty token.
RECURSIVE splitWs(_, _, _)
splitWs(s, cur, acc) ==
    IF s = <<>> THEN Append(acc, cur)
    ELSE IF Head(s) \in Whitespace
         THEN splitWs(trimStart(s), <<>>, Append(acc, cur))
         ELSE splitWs(Tail(s), Append(cur, Head(s)), acc)

split(s) == splitWs(s, <<>>, <<>>)

\* Array.prototype.join(" ")
RECURSIVE join(_)
join(ws) == IF ws = <<>> THEN <<>>
            ELSE IF Len(ws) = 1 THEN ws[1]
            ELSE ws[1] \o <<" ">> \o join(Tail(ws))

\* ------------------------------------------------------------------------
\* levenshteinDistance: the dp table, one row at a time.
\* prev[k] is dp[i-1][k-1], row[k] is dp[i][k-1].
\* ------------------------------------------------------------------------
RECURSIVE levRow(_, _, _, _)
levRow(ai, b, prev, row) ==
    IF Len(row) = Len(b) + 1 THEN row
    ELSE LET j == Len(row)
             cell == IF ai = b[j] THEN prev[j]
                     ELSE 1 + Min3(prev[j + 1], row[j], prev[j])
         IN levRow(ai, b, prev, Append(row, cell))

RECURSIVE levRows(_, _, _, _)
levRows(a, b, i, prev) ==
    IF i > Len(a) THEN prev[Len(b) + 1]
    ELSE LET row == levRow(a[i], b, prev, <<i>>)
         IN \* the test, always true, makes TLC compute row i before row i + 1
            IF Len(row) = Len(b) + 1 THEN levRows(a, b, i + 1, row) ELSE 0

levenshteinDistance(a, b) == levRows(a, b, 1, [k \in 1..(Len(b) + 1) |-> k - 1])

\* ------------------------------------------------------------------------
\* similarityScore: 1 - distance / maxLen, kept as the exact fraction
\* <<maxLen - distance, maxLen>> (<<1, 1>> when both strings are empty).
\* ------------------------------------------------------------------------
similarityScore(a, b) ==
    LET distance == levenshteinDistance(a, b)
        maxLen == Max2(Len(a), Len(b))
    IN IF maxLen = 0 THEN <<1, 1>> ELSE <<maxLen - distance, maxLen>>

\* comparison of two scores (denominators are positive)
ScoreGreater(s, t) == s[1] * t[2] > t[1] * s[2]

\* score >= threshold, the threshold 0.8 being ThresholdNum / ThresholdDen
ThresholdNum == 4
ThresholdDen == 5
ScoreReaches(s) == s[1] * ThresholdDen >= ThresholdNum * s[2]

\* ------------------------------------------------------------------------
\* findBestOverlap: candidates minOverlap..maxOverlap in ascending order,
\* stopping at the first one longer than either word list; the best is
\* replaced only by a strictly greater score.
\* ------------------------------------------------------------------------
MinOverlap == 5
MaxOverlap == 20
WindowWords == 10

\* the test  score > bestScore  that updates the best candidate
BeatsBest(score, bestScore) == ScoreGreater(score, bestScore)

CandidateScore(prevWords, currWords, candidate) ==
    LET prevOverlap == join(SliceLast(prevWords, candidate))
        currOverlap == join(SliceFirst(currWords, candidate))
    IN similarityScore(toLowerCase(prevOverlap), toLowerCase(currOverlap))

RECURSIVE overlapLoop(_, _, _, _, _)
overlapLoop(prevWords, currWords, candidate, maxOverlap, best) ==
    IF candidate > maxOverlap THEN best
    ELSE IF candidate > Len(prevWords) \/ candidate > Len(currWords) THEN best
    ELSE LET score == CandidateScore(prevWords, currWords, candidate)
             next == IF BeatsBest(score, best.score)
                     THEN [overlapCount |-> candidate, score |-> score]
                     ELSE best
         IN overlapLoop(prevWords, currWords, candidate + 1, maxOverlap, next)

findBestOverlap(prevWords, currWords, minOverlap, maxOverlap) ==
    overlapLoop(prevWords, currWords, minOverlap, maxOverlap,
                [overlapCount |-> 0, score |-> <<0, 1>>])

\* ------------------------------------------------------------------------
\* improvedStitchTranscriptions
\* ------------------------------------------------------------------------
\* the overlap searched in the whole text stitched so far
OverlapForWholeText(stitched, piece) ==
    LET prevWords == split(stitched)
        currWords == split(piece)
    IN findBestOverlap(prevWords, currWords, MinOverlap, MaxOverlap)

\* the overlap found between the text stitched so far and the next piece
OverlapFor(stitched, piece) ==
    LET prevWords == split(stitched)
        currWords == split(piece)
        prevWindow == SliceLast(prevWords, WindowWords)
    IN findBestOverlap(prevWindow, currWords, MinOverlap, MaxOverlap)

\* the piece as it is appended: without its first overlapCount words when the
\* score reaches the threshold, as it is otherwise
currAdjusted(stitched, piece) ==
    LET best == OverlapFor(stitched, piece)
    IN IF ScoreReaches(best.score) /\ best.overlapCount > 0
       THEN join(SliceFrom(split(piece), best.overlapCount))
       ELSE piece

\* one iteration of the loop: stitched = stitched + " " + currAdjusted
StitchNext(stitched, piece) == stitched \o <<" ">> \o currAdjusted(stitched, piece)

RECURSIVE stitchLoop(_, _, _)
stitchLoop(transcripts, i, stitched) ==
    IF i > Len(transcripts) THEN stitched
    ELSE stitchLoop(transcripts, i + 1, StitchNext(stitched, transcripts[i]))

\* the stitcher without its trims
stitchUntrimmed(transcripts) ==
    IF Len(transcripts) = 0 THEN <<>>
    ELSE stitchLoop(transcripts, 2, transcripts[1])

improvedStitchTranscriptions(transcripts) ==
    IF Len(transcripts) = 0 THEN <<>>
    ELSE trim(stitchLoop(transcripts, 2, trim(transcripts[1])))

\* ------------------------------------------------------------------------
\* The codec as the splitter uses it.  An audio is a span <<start, end>> (in
\* ticks) of the converted audio src = [size, dur]; a stream copy of d ticks
\* of it has the proportional number of bytes, rounded down.
\* ------------------------------------------------------------------------
MaxDepth == 4                   \* deepest recursion of the splitter that is followed
TicksPerSec == 2 ^ MaxDepth     \* halving a whole number of seconds MaxDepth times is exact

Audio(size, durSec) == [size |-> size, dur |-> durSec * TicksPerSec]

CutSize(src, d) ==
    IF d = 0 THEN 0
    ELSE (src.size \div src.dur) * d + ((src.size % src.dur) * d) \div src.dur

\* what the regular expression  Duration:\s*(\d+):(\d+):(\d+(?:\.\d+)?)  finds
\* in the codec's log for an audio of d ticks: hours, minutes and seconds
\* (the seconds with their fraction, in ticks), or no match
NoMatch == [matched |-> FALSE, hh |-> 0, mm |-> 0, ss |-> 0]

DurationLine(d) ==
    [matched |-> TRUE,
     hh |-> d \div (3600 * TicksPerSec),
     mm |-> (d \div (60 * TicksPerSec)) % 60,
     ss |-> d % (60 * TicksPerSec)]

\* failing: the files whose probe prints no Duration line
ProbeLog(filename, d, failing) ==
    IF filename \in failing THEN NoMatch ELSE DurationLine(d)

\* ------------------------------------------------------------------------
\* recursiveSplitBySize
\* ------------------------------------------------------------------------
OverlapSec == 3

\* hh * 3600 + mm * 60 + ss
totalDuration(m) == m.hh * 3600 * TicksPerSec + m.mm * 60 * TicksPerSec + m.ss

\* CutTimes with the overlap taken off the left cut and put on the right one
CutTimesGap(totalDur) ==
    LET halfTime == totalDur \div 2
    IN [halfTime |-> halfTime,
        left |-> <<0, Max2(halfTime - OverlapSec * TicksPerSec, 0)>>,
        right |-> <<Min2(halfTime + OverlapSec * TicksPerSec, totalDur), totalDur>>]

\* the two cuts of a file of totalDur ticks, in the file's own time:
\* 0 .. min(half + 3, total)  and  max(half - 3, 0) .. total
\* the two halves cut at the midpoint, without the 3 s on either side
CutTimesAtMidpoint(totalDur) ==
    LET halfTime == totalDur \div 2
    IN [halfTime |-> halfTime, left |-> <<0, halfTime>>, right |-> <<halfTime, totalDur>>]

CutTimes(totalDur) ==
    LET halfTime == totalDur \div 2     \* exact: see TicksPerSec
    IN [halfTime |-> halfTime,
        left |-> <<0, Min2(halfTime + OverlapSec * TicksPerSec, totalDur)>>,
        right |-> <<Max2(halfTime - OverlapSec * TicksPerSec, 0), totalDur>>]

\* `${filename}_left_${halfTime}.mp3`: a file name is the list of the cuts
\* that lead to it from output.mp3 (the empty list)
OutputMp3 == <<>>
CutName(filename, side, halfTime) == Append(filename, <<side, halfTime>>)

\* a SegmentInfo {filename, size}; span is the part of the converted audio
\* the file holds, which the code does not store
Segment(filename, size, span) == [filename |-> filename, size |-> size, span |-> span]

\* ConcatSegments with the right half first
ConcatRightFirst(leftSegments, rightSegments) == rightSegments \o leftSegments

\* [...leftSegments, ...rightSegments]
ConcatSegments(leftSegments, rightSegments) == leftSegments \o rightSegments

\* The result: the segments, the number of probes and cuts asked of the
\* codec, and how the call ended: "returned"; "loops" when a cut is the whole
\* of its file again, so that the recursion never ends; "deep" when the
\* recursion goes beyond MaxDepth and is not followed further.
SplitResult(segs, end, probes, cuts) ==
    [segs |-> segs, end |-> end, probes |-> probes, cuts |-> cuts]

\* the codec's cut  -ss from -to to -c copy  of a file, written as out
CutFile(src, file, from, to, out) ==
    [name |-> out,
     span |-> <<file.span[1] + from, file.span[1] + to>>,
     size |-> CutSize(src, to - from)]

RECURSIVE recursiveSplitBySize(_, _, _, _, _)
recursiveSplitBySize(src, maxBytes, failing, file, depth) ==
    LET whole == SplitResult(<<Segment(file.name, file.size, file.span)>>, "returned", 0, 0)
    IN IF file.size <= maxBytes THEN whole
       ELSE LET durationMatch == ProbeLog(file.name, file.span[2] - file.span[1], failing)
            IN IF ~durationMatch.matched
               THEN [whole EXCEPT !.probes = 1]
               ELSE
    LET t == CutTimes(totalDuration(durationMatch))
        leftFile == CutFile(src, file, t.left[1], t.left[2],
                            CutName(file.name, "left", t.halfTime))
        rightFile == CutFile(src, file, t.right[1], t.right[2],
                             CutName(file.name, "right", t.halfTime))
    IN IF leftFile.span = file.span /\ leftFile.size = file.size
       THEN SplitResult(<<>>, "loops", 1, 2)
       ELSE IF depth = MaxDepth THEN SplitResult(<<>>, "deep", 1, 2)
       ELSE
    LET l == recursiveSplitBySize(src, maxBytes, failing, leftFile, depth + 1)
    IN IF l.end # "returned" THEN SplitResult(<<>>, l.end, 1 + l.probes, 2 + l.cuts)
       ELSE
    LET r == recursiveSplitBySize(src, maxBytes, failing, rightFile, depth + 1)
    IN IF r.end # "returned"
       THEN SplitResult(<<>>, r.end, 1 + l.probes + r.probes, 2 + l.cuts + r.cuts)
       ELSE SplitResult(ConcatSegments(l.segs, r.segs), "returned",
                        1 + l.probes + r.probes, 2 + l.cuts + r.cuts)

\* ------------------------------------------------------------------------
\* The body of the try block of runSplittingStep up to finalSegments: split
\* when the audio is larger than MAX_BYTES, one segment output.mp3 otherwise
\* ------------------------------------------------------------------------
\* output.mp3 holding the converted audio
OutputFile(mp3) == [name |-> OutputMp3, span |-> <<0, mp3.dur>>, size |-> mp3.size]

\* the Split stage with  size < MAX_BYTES  as the test of both comparisons
SplitStageBelowLimit(mp3, maxBytes, failing) ==
    IF mp3.size >= maxBytes
    THEN recursiveSplitBySize(mp3, maxBytes - 1, failing, OutputFile(mp3), 0)
    ELSE SplitResult(<<Segment(OutputMp3, mp3.size, <<0, mp3.dur>>)>>, "returned", 0, 0)

SplitStage(mp3, maxBytes, failing) ==
    IF mp3.size > maxBytes
    THEN recursiveSplitBySize(mp3, maxBytes, failing, OutputFile(mp3), 0)
    ELSE SplitResult(<<Segment(OutputMp3, mp3.size, <<0, mp3.dur>>)>>, "returned", 0, 0)

\* ------------------------------------------------------------------------
\* The stage state machine: data
\* ------------------------------------------------------------------------
MaxTasks == 2           \* handler invocations that may be in progress together
MaxOrphans == 2         \* abandoned reads and provider calls that may be in flight together
MaxRequests == 3        \* runs, retries and resets the operator asks for
MaxInstances == MaxTasks + 1    \* live FFmpeg instances: the current one, one per task

Tasks == 1..MaxTasks

stepIndexMap == [setup |-> 0, convert |-> 1, split |-> 2, transcribe |-> 3, summarize |-> 4]
StepNames == {"setup", "convert", "split", "transcribe", "summarize"}

\* useState<number>(25), and the other value the operator enters
DefaultFileSizeMB == 25
LargeFileSizeMB == 50
\* const MAX_BYTES = maxFileSizeMB * 1024 * 1024
MAX_BYTES(fileSizeMB) == fileSizeMB * 1024 * 1024
concurrencyLimit == 10

\* what the operator enters as Max file size (0: no positive number), and
\* what the operator leaves in the transcript textarea
FileSizeInputs == {0, DefaultFileSizeMB, LargeFileSizeMB}
EditedTexts == {<<>>, <<"x">>}

\* the files the operator can select, and the file the recorder makes
NoFile == ""
UploadFiles == {"note.wav"}
RecordingFile == "Recording.mp3"

\* output.mp3 as the conversion of a file writes it
Converted(file) ==
    CASE file = "talk.mp4" -> Audio(60000000, 40)
      [] file = "note.wav" -> Audio(40000000, 30)
      [] file = "lecture.mp4" -> Audio(200000000, 160)
      [] OTHER -> Audio(500000, 5)

NoAudio == [size |-> 0, dur |-> 0]

\* IntermediateData: keys holds the properties that are set
EmptyData == [keys |-> {}, convertedMp3 |-> NoAudio, segments |-> <<>>, transcripts |-> <<>>]

\* the statuses every cleanup sets
ResetStatus == [setup |-> "success", convert |-> "idle", split |-> "idle",
                transcribe |-> "idle", summarize |-> "idle"]

\* an FFmpeg instance: its state and the files of its memory file system
\* (output.mp3 with the audio it holds, and the names of the cut files)
\* reads are the files asked of it by invocations of transcribeSegment that
\* nobody awaits any more
NoInstance == [state |-> "none", output |-> <<>>, cuts |-> {}, reads |-> <<>>]
NewInstance == [state |-> "created", output |-> <<>>, cuts |-> {}, reads |-> <<>>]
LoadedInstance == [state |-> "loaded", output |-> <<>>, cuts |-> {}, reads |-> <<>>]

\* A handler invocation waiting at an await.  pc is the await it waits at:
\*   "load"     ffmpeg.load                      (loadFFmpeg)
\*   "unmount"  ffmpeg.unmount                   (performBaseCleanup)
\*   "create"   createNewFFmpeg                  (performBaseCleanup)
\*   "convert"  createDir, mount, exec, readFile (runConversionStep)
\*   "split"    recursiveSplitBySize, readFile   (runSplittingStep)
\*   "batch"    Promise.all of the batch         (runTranscriptionStep)
\*   "delay"    the 60 s timer                   (runTranscriptionStep)
\*   "chat"     chat.completions.create          (handleSendToLLM)
\* cleanup is the cleanup being run, inputFile .. openaiKey the state the
\* handler's closure captured (as long as the handler can still read it),
\* ffmpeg the instance the running stage took from ffmpegRef.current, and
\* the rest the local variables of the running stage; delays counts the
\* 60 s timers the running Transcribe stage has set.
FreeTask ==
    [pc |-> "free", cleanup |-> "none",
     inputFile |-> NoFile, loaded |-> FALSE,
     selectedApi |-> "groq", groqKey |-> "", openaiKey |-> "",
     maxFileSizeMB |-> DefaultFileSizeMB,
     ffmpeg |-> 0, mp3Data |-> NoAudio, segments |-> <<>>, i |-> 0,
     transcripts |-> <<>>, batchResults |-> <<>>, reading |-> {}, pending |-> {},
     swapped |-> FALSE, delays |-> 0]

\* The last step of a handler: the task that took it and the stage it
\* belongs to; type is "fail" (the stage threw), "refused" (a retry found no
\* prerequisite), "done" (the Transcribe stage succeeded) or "step" (anything
\* else); request is the handler the operator invoked in this step ("run",
\* "cleanup" or the stage retried), "none" when the step is the end of an
\* await; swapped tells, at "done", that some call completed before a call
\* for an earlier segment.
Event(type, stage, task) ==
    [type |-> type, stage |-> stage, task |-> task, request |-> "none", swapped |-> FALSE]

\* the state as one record, for the handlers to transform
State ==
    [loaded |-> loaded, inputFile |-> inputFile,
     transcriptionResult |-> transcriptionResult, transcribing |-> transcribing,
     pipelineStep |-> pipelineStep, stepStatus |-> stepStatus,
     intermediateData |-> intermediateData, segmentUrls |-> segmentUrls,
     selectedApi |-> selectedApi, groqKey |-> groqKey, openaiKey |-> openaiKey,
     autoTranscribe |-> autoTranscribe, isFromRecording |-> isFromRecording,
     maxFileSizeMB |-> maxFileSizeMB, isGeneratingChat |-> isGeneratingChat,
     ffmpegRef |-> ffmpegRef, instances |-> instances, tasks |-> tasks,
     orphans |-> orphans, requests |-> requests, ev |-> ev]

\* instances no task and no ref holds any more are gone
Collect(s) ==
    [s EXCEPT !.instances =
        [k \in 1..MaxInstances |->
            IF k = s.ffmpegRef \/ s.instances[k].reads # <<>>
                  \/ \E t \in Tasks : s.tasks[t].ffmpeg = k
            THEN s.instances[k] ELSE NoInstance]]

FreshInstance(s) ==
    CHOOSE k \in 1..MaxInstances :
        /\ s.instances[k].state = "none"
        /\ \A j \in 1..(k - 1) : s.instances[j].state # "none"

Alive(s, k) == k # 0 /\ s.instances[k].state = "loaded"

\* ffmpeg.readFile(filename) on instance k finds the file
Readable(s, k, filename) ==
    /\ Alive(s, k)
    /\ IF filename = OutputMp3 THEN s.instances[k].output # <<>>
       ELSE filename \in s.instances[k].cuts

\* ffmpeg.terminate(): whoever holds the instance holds a terminated one
terminate(s, k) ==
    IF k = 0 THEN s
    ELSE [s EXCEPT !.instances[k] = NoInstance,
                   !.ffmpegRef = IF @ = k THEN 0 ELSE @,
                   !.tasks = [t \in Tasks |->
                                IF @[t].ffmpeg = k THEN [@[t] EXCEPT !.ffmpeg = 0] ELSE @[t]]]

\* the provider's transcription of a segment: one word that names the
\* segment (the number its cuts spell, left = 0 and right = 1), in lower case
\* from Groq and in upper case from OpenAI
RECURSIVE SegmentNumber(_)
SegmentNumber(filename) ==
    IF filename = <<>> THEN 1
    ELSE 2 * SegmentNumber(SubSeq(filename, 1, Len(filename) - 1)) - 1
         + (IF filename[Len(filename)][1] = "right" THEN 1 ELSE 0)

ProviderText(api, filename) ==
    LET n == ((SegmentNumber(filename) - 1) % Len(LowerLetters)) + 1
    IN IF api = "groq" THEN <<LowerLetters[n]>> ELSE <<UpperLetters[n]>>

FileNamesOf(segs) == [i \in 1..Len(segs) |-> segs[i].filename]

endTask(s, t) == [s EXCEPT !.tasks[t] = FreeTask]

\* the task of a handler invoked now: its closure holds the state of now
NewTask(s) ==
    [FreeTask EXCEPT !.inputFile = s.inputFile, !.loaded = s.loaded,
                     !.selectedApi = s.selectedApi, !.groqKey = s.groqKey,
                     !.openaiKey = s.openaiKey, !.maxFileSizeMB = s.maxFileSizeMB]

\* updateStepStatus(step, status, moveToNextStep)
updateStepStatus(s, step, status, moveToNextStep) ==
    [s EXCEPT !.stepStatus[step] = status,
              !.pipelineStep =
                  IF status = "success" /\ moveToNextStep /\ stepIndexMap[step] + 1 <= 4
                  THEN stepIndexMap[step] + 1 ELSE @]

\* a catch block that ends the handler without a word
failSilently(s, t, step) ==
    endTask([s EXCEPT !.ev = [s.ev EXCEPT !.type = "fail", !.stage = step, !.task = t]], t)

\* a stage's catch block: the error status, and the handler returns false
failStage(s, t, step) ==
    endTask([updateStepStatus(s, step, "error", FALSE)
                EXCEPT !.ev = [s.ev EXCEPT !.type = "fail", !.stage = step, !.task = t]], t)

isAnyStepLoading(s) == \E k \in StepNames : s.stepStatus[k] = "loading"

\* ------------------------------------------------------------------------
\* The cleanups.  performBaseCleanup awaits the unmount, then deletes
\* output.mp3 and terminates the instance it was given, then awaits a fresh
\* instance; its caller resets the display afterwards.
\* ------------------------------------------------------------------------
\* performLightCleanup / performAutoCleanup / performCleanup up to the first
\* await: const ffmpeg = ffmpegRef.current; await ffmpeg.unmount(mountDir)
startCleanup(s, t, kind) ==
    [s EXCEPT !.tasks[t].pc = "unmount", !.tasks[t].cleanup = kind,
              !.tasks[t].ffmpeg = s.ffmpegRef]

\* steps 2 and 3 of performBaseCleanup, up to  await createNewFFmpeg()
unmounted(s, t) ==
    [terminate(s, s.tasks[t].ffmpeg) EXCEPT !.tasks[t].pc = "create"]

\* step 4 of performBaseCleanup and  if (newFFmpeg) { ffmpegRef.current =
\* newFFmpeg; setLoaded(true) }: created tells whether createNewFFmpeg resolved
replaceInstance(s, created) ==
    IF created
    THEN LET k == FreshInstance(s)
         IN [s EXCEPT !.instances[k] = LoadedInstance, !.ffmpegRef = k, !.loaded = TRUE]
    ELSE s

\* ------------------------------------------------------------------------
\* runTranscriptionStep
\* ------------------------------------------------------------------------
\* the files of the segments js, in the order of the segments
RECURSIVE FilesOf(_, _)
FilesOf(segments, js) ==
    IF js = {} THEN <<>>
    ELSE LET j == CHOOSE k \in js : \A l \in js : k <= l
         IN <<segments[j].filename>> \o FilesOf(segments, js \ {j})

\* the invocations of transcribeSegment a rejected Promise.all leaves behind:
\* those that wait for the provider, and those that still wait for their
\* file, on the instance they asked (none when it has been terminated)
abandon(s, t, calls) ==
    LET c == s.tasks[t]
        s1 == [s EXCEPT !.orphans = @ + Cardinality(c.pending \cap calls)]
    IN IF c.ffmpeg = 0 THEN s1
       ELSE [s1 EXCEPT !.instances[c.ffmpeg].reads =
                            @ \o FilesOf(c.segments, c.reading \cap calls)]

\* the catch block of runTranscriptionStep; the calls of the batch that
\* have not come to their end go on without it
transcribeThrows(s, t, calls) ==
    failStage([abandon(s, t, calls) EXCEPT !.transcribing = FALSE], t, "transcribe")

\* after the last batch: lines 1922-1943, up to the first await of the cleanup
finishTranscription(s, t) ==
    LET transcripts == s.tasks[t].transcripts
        masterTranscript == improvedStitchTranscriptions(transcripts)
        s1 == [s EXCEPT !.intermediateData.keys = @ \cup {"transcripts"},
                        !.intermediateData.transcripts = transcripts,
                        !.transcriptionResult = masterTranscript,
                        !.ev = [s.ev EXCEPT !.type = "done", !.stage = "transcribe",
                                            !.task = t, !.swapped = s.tasks[t].swapped]]
        s2 == [updateStepStatus(s1, "transcribe", "success", TRUE) EXCEPT !.pipelineStep = 4]
    IN startCleanup([s2 EXCEPT !.tasks[t] = FreeTask], t, "auto")

\* a batch done, with a timer set after the last batch as well
batchDoneThenDelay(s, t) ==
    LET c == s.tasks[t]
        s1 == [s EXCEPT !.tasks[t].transcripts = @ \o c.batchResults,
                        !.tasks[t].batchResults = <<>>]
    IN IF c.i + concurrencyLimit <= Len(c.segments)
       THEN [s1 EXCEPT !.tasks[t].pc = "delay", !.tasks[t].delays = @ + 1]
       ELSE finishTranscription(s1, t)

\* Promise.all resolved: transcripts.push(...batchResults), then the delay
\* when segments are left, the end of the stage when none is
batchDone(s, t) ==
    LET c == s.tasks[t]
        s1 == [s EXCEPT !.tasks[t].transcripts = @ \o c.batchResults,
                        !.tasks[t].batchResults = <<>>]
    IN IF c.i + concurrencyLimit < Len(c.segments)
       THEN [s1 EXCEPT !.tasks[t].pc = "delay", !.tasks[t].delays = @ + 1]
       ELSE finishTranscription(s1, t)

\* transcribeSegment returns "" at once when the key of the provider is empty
KeyMissing(c) ==
    \/ c.selectedApi = "groq" /\ c.groqKey = ""
    \/ c.selectedApi = "openai" /\ c.openaiKey = ""

\* all the segments left dispatched at once
startBatchOfAll(s, t) ==
    LET c == s.tasks[t]
        last == Len(c.segments)
        batch == (c.i + 1)..last
        empty == [j \in 1..(last - c.i) |-> <<>>]
    IN IF KeyMissing(c)
       THEN batchDone([s EXCEPT !.tasks[t].batchResults = empty], t)
       ELSE IF ~Alive(s, s.ffmpegRef)
       THEN transcribeThrows(s, t, {})
       ELSE [s EXCEPT !.tasks[t].pc = "batch", !.tasks[t].batchResults = empty,
                      !.tasks[t].ffmpeg = s.ffmpegRef, !.tasks[t].reading = batch]

\* batch.map((seg) => transcribeSegment(seg.filename)) for the batch that
\* starts after segment i: every invocation returns "" when the key is
\* missing, and asks ffmpegRef.current for its file otherwise (a terminated
\* instance rejects at once)
startBatch(s, t) ==
    LET c == s.tasks[t]
        last == Min2(c.i + concurrencyLimit, Len(c.segments))
        batch == (c.i + 1)..last
        empty == [j \in 1..(last - c.i) |-> <<>>]
    IN IF KeyMissing(c)
       THEN batchDone([s EXCEPT !.tasks[t].batchResults = empty], t)
       ELSE IF ~Alive(s, s.ffmpegRef)
       THEN transcribeThrows(s, t, {})
       ELSE [s EXCEPT !.tasks[t].pc = "batch", !.tasks[t].batchResults = empty,
                      !.tasks[t].ffmpeg = s.ffmpegRef, !.tasks[t].reading = batch]

\* runTranscriptionStep(segments) up to its first await
runTranscriptionStep(s, t, segments) ==
    LET s1 == updateStepStatus(s, "transcribe", "loading", FALSE)
    IN startBatch([s1 EXCEPT !.tasks[t].segments = segments, !.tasks[t].i = 0,
                             !.tasks[t].transcripts = <<>>, !.tasks[t].delays = 0,
                             !.tasks[t].mp3Data = NoAudio,
                             !.tasks[t].maxFileSizeMB = DefaultFileSizeMB,
                             !.tasks[t].inputFile = NoFile, !.tasks[t].loaded = FALSE], t)

\* batchResults in the order the calls complete
PlaceInArrivalOrder(batchResults, position, arrived, text) ==
    [batchResults EXCEPT ![arrived + 1] = text]

\* Promise.all puts the value of the call at the position of its promise
PlaceResult(batchResults, position, arrived, text) ==
    [batchResults EXCEPT ![position] = text]

\* await ffmpeg.readFile(filename) of the invocation for segment j has
\* resolved: the call to the provider is made
readResolved(s, t, j) ==
    LET left == s.tasks[t].reading \ {j}
    IN [s EXCEPT !.tasks[t].reading = left, !.tasks[t].pending = @ \cup {j},
                 !.tasks[t].ffmpeg = IF left = {} THEN 0 ELSE @]

\* it has rejected: the invocation throws
readRejected(s, t, j) ==
    LET c == s.tasks[t]
    IN transcribeThrows(s, t, (c.reading \cup c.pending) \ {j})

\* the provider answered the call for segment j
callResolved(s, t, j) ==
    LET c == s.tasks[t]
        arrived == Len(c.batchResults) - Cardinality(c.pending \cup c.reading)
        text == ProviderText(c.selectedApi, c.segments[j].filename)
        s1 == [s EXCEPT !.tasks[t].batchResults = PlaceResult(@, j - c.i, arrived, text),
                        !.tasks[t].pending = @ \ {j},
                        !.tasks[t].swapped = @ \/ \E k \in c.pending \cup c.reading : k < j]
    IN IF s1.tasks[t].pending = {} /\ c.reading = {} THEN batchDone(s1, t) ELSE s1

\* the call for segment j threw: transcribeSegment rethrows
callRejected(s, t, j) ==
    LET c == s.tasks[t]
    IN transcribeThrows(s, t, (c.reading \cup c.pending) \ {j})

\* a read nobody awaits has resolved on instance k: the call to the
\* provider is made all the same
orphanReadResolved(s, k) ==
    [s EXCEPT !.instances[k].reads = Tail(@), !.orphans = @ + 1]

\* it has rejected
orphanReadRejected(s, k) ==
    [s EXCEPT !.instances[k].reads = Tail(@)]

\* the 60 s are over: the next batch
delayElapsed(s, t) ==
    startBatch([s EXCEPT !.tasks[t].i = @ + concurrencyLimit], t)

\* ------------------------------------------------------------------------
\* runSplittingStep
\* ------------------------------------------------------------------------
\* lines 1871-1881: the segments are stored and transcription starts
splitSucceeds(s, t, finalSegments) ==
    LET s1 == [s EXCEPT !.segmentUrls = FileNamesOf(finalSegments),
                        !.intermediateData.keys = @ \cup {"segments"},
                        !.intermediateData.segments = finalSegments]
    IN runTranscriptionStep(updateStepStatus(s1, "split", "success", TRUE), t, finalSegments)

\* runSplittingStep(mp3Data) up to its first await: none when the audio is
\* within MAX_BYTES
runSplittingStep(s, t, mp3Data) ==
    LET s1 == updateStepStatus(s, "split", "loading", FALSE)
        s2 == [s1 EXCEPT !.tasks[t].pc = "split", !.tasks[t].ffmpeg = s.ffmpegRef,
                         !.tasks[t].mp3Data = mp3Data,
                         !.tasks[t].inputFile = NoFile, !.tasks[t].loaded = FALSE]
        maxBytes == MAX_BYTES(s.tasks[t].maxFileSizeMB)
    IN IF mp3Data.size > maxBytes THEN s2
       ELSE splitSucceeds(s2, t, SplitStage(mp3Data, maxBytes, {}).segs)

\* what recursiveSplitBySize("output.mp3") does on the instance that holds
\* the audio fsAudio as output.mp3
SplitOnInstance(fsAudio, maxBytes, failing) ==
    recursiveSplitBySize(fsAudio, maxBytes, failing, OutputFile(fsAudio), 0)

\* the split can come to an end: the stage's instance is still the current
\* one and holds output.mp3, and the recursion returns
CanSplit(s, t, failing) ==
    /\ s.tasks[t].ffmpeg = s.ffmpegRef
    /\ Readable(s, s.ffmpegRef, OutputMp3)
    /\ SplitOnInstance(s.instances[s.ffmpegRef].output[1],
                       MAX_BYTES(s.tasks[t].maxFileSizeMB), failing).end = "returned"

splitResolved(s, t, failing) ==
    LET k == s.ffmpegRef
        segs == SplitOnInstance(s.instances[k].output[1],
                                MAX_BYTES(s.tasks[t].maxFileSizeMB), failing).segs
        names == {segs[i].filename : i \in 1..Len(segs)}
    IN splitSucceeds([s EXCEPT !.instances[k].cuts = @ \cup names], t, segs)

\* ------------------------------------------------------------------------
\* runConversionStep
\* ------------------------------------------------------------------------
\* runConversionStep up to its first await; it returns at once, the status
\* untouched, when its closure holds no file or an unloaded codec
runConversionStep(s, t) ==
    LET c == s.tasks[t]
    IN IF c.inputFile = NoFile \/ ~c.loaded THEN endTask(s, t)
       ELSE [updateStepStatus(s, "convert", "loading", FALSE)
                EXCEPT !.tasks[t].pc = "convert", !.tasks[t].ffmpeg = s.ffmpegRef]

\* lines 1790-1803: output.mp3 is written and read back, the checkpoint
\* takes it, the split starts
convertResolved(s, t) ==
    LET c == s.tasks[t]
        mp3Data == Converted(c.inputFile)
        s1 == [s EXCEPT !.instances[c.ffmpeg].output = <<mp3Data>>,
                        !.intermediateData.keys = @ \cup {"convertedMp3"},
                        !.intermediateData.convertedMp3 = mp3Data]
    IN runSplittingStep(updateStepStatus(s1, "convert", "success", TRUE), t, mp3Data)

\* ------------------------------------------------------------------------
\* transcribeFile, the cleanups' ends, retryStep, loadFFmpeg
\* ------------------------------------------------------------------------
\* transcribeFile from "Reset status" on: lines 1719-1731
startRun(s, t) ==
    runConversionStep([s EXCEPT !.stepStatus = [ResetStatus EXCEPT !.convert = "loading"],
                                !.transcribing = TRUE], t)

\* hasExistingTranscription || hasActiveSteps || pipelineStep > 1
PreviousActivity(s) ==
    \/ s.transcriptionResult # <<>>
    \/ s.intermediateData.keys # {}
    \/ s.segmentUrls # <<>>
    \/ \E k \in StepNames \ {"setup"} : s.stepStatus[k] # "idle"
    \/ s.pipelineStep > 1

\* transcribeFile that starts the run without the light cleanup
transcribeFileAtOnce(s, t) ==
    IF s.inputFile = NoFile \/ ~s.loaded THEN s
    ELSE startRun([s EXCEPT !.tasks[t] = NewTask(s), !.requests = @ + 1,
                            !.ev = [Event("step", "convert", t) EXCEPT !.request = "run"]], t)

\* transcribeFile up to its first await
transcribeFile(s, t) ==
    IF s.inputFile = NoFile \/ ~s.loaded THEN s
    ELSE LET s1 == [s EXCEPT !.tasks[t] = NewTask(s), !.requests = @ + 1,
                             !.ev = [Event("step", "convert", t) EXCEPT !.request = "run"]]
         IN IF PreviousActivity(s) THEN startCleanup(s1, t, "light") ELSE startRun(s1, t)

\* the end of a cleanup that resets the progress display only when the
\* new instance was made
createdOrGivenUp(s, t, ok) ==
    LET kind == s.tasks[t].cleanup
        s1 == replaceInstance(s, ok)
    IN CASE kind = "light" ->
              startRun([s1 EXCEPT !.pipelineStep = 1, !.stepStatus = ResetStatus,
                                  !.segmentUrls = <<>>, !.transcriptionResult = <<>>,
                                  !.intermediateData = EmptyData,
                                  !.tasks[t].cleanup = "none"], t)
         [] kind = "auto" ->
              endTask([s1 EXCEPT !.stepStatus = IF ok THEN ResetStatus ELSE @,
                                 !.transcribing = FALSE], t)
         [] OTHER ->
              endTask([s1 EXCEPT !.transcriptionResult = <<>>, !.transcribing = FALSE,
                                 !.pipelineStep = 1, !.intermediateData = EmptyData,
                                 !.isGeneratingChat = FALSE,
                                 !.stepStatus = ResetStatus, !.segmentUrls = <<>>,
                                 !.isFromRecording = FALSE], t)

\* createNewFFmpeg has resolved or thrown: the rest of the cleanup, and of
\* the handler that awaited it
created(s, t, ok) ==
    LET kind == s.tasks[t].cleanup
        s1 == replaceInstance(s, ok)
    IN CASE kind = "light" ->
              \* lines 2763-2772, then 1713-1716, then the run starts
              startRun([s1 EXCEPT !.pipelineStep = 1, !.stepStatus = ResetStatus,
                                  !.segmentUrls = <<>>, !.transcriptionResult = <<>>,
                                  !.intermediateData = EmptyData,
                                  !.tasks[t].cleanup = "none"], t)
         [] kind = "auto" ->
              \* lines 2639-2645, then 1951
              endTask([s1 EXCEPT !.stepStatus = ResetStatus, !.transcribing = FALSE], t)
         [] OTHER ->
              \* performCleanup: lines 2691-2715
              endTask([s1 EXCEPT !.transcriptionResult = <<>>, !.transcribing = FALSE,
                                 !.pipelineStep = 1, !.intermediateData = EmptyData,
                                 !.isGeneratingChat = FALSE,
                                 !.stepStatus = ResetStatus, !.segmentUrls = <<>>,
                                 !.isFromRecording = FALSE], t)

\* loadFFmpeg up to  await ffmpeg.load
loadFFmpeg(s, t) ==
    [updateStepStatus(s, "setup", "loading", FALSE)
        EXCEPT !.tasks[t].pc = "load", !.tasks[t].ffmpeg = s.ffmpegRef]

loadResolved(s, t) ==
    LET k == s.tasks[t].ffmpeg
        s1 == [s EXCEPT !.instances[k].state = "loaded", !.loaded = TRUE]
    IN endTask(updateStepStatus(s1, "setup", "success", TRUE), t)

\* handleSendToLLM up to its await of the chat completion: nothing without a
\* transcript, the error status without the key of the selected provider
handleSendToLLM(s, t) ==
    IF s.transcriptionResult = <<>> THEN endTask(s, t)
    ELSE LET s1 == updateStepStatus([s EXCEPT !.pipelineStep = 4, !.isGeneratingChat = TRUE],
                                    "summarize", "loading", FALSE)
         IN IF KeyMissing(s.tasks[t])
            THEN failStage([s1 EXCEPT !.isGeneratingChat = FALSE], t, "summarize")
            ELSE [s1 EXCEPT !.tasks[t].pc = "chat"]

\* the chat completion has arrived
chatResolved(s, t) ==
    endTask(updateStepStatus([s EXCEPT !.isGeneratingChat = FALSE],
                             "summarize", "success", FALSE), t)

\* the chat completion has thrown
chatRejected(s, t) ==
    failStage([s EXCEPT !.isGeneratingChat = FALSE], t, "summarize")

\* handleMaxFileSizeChange: a size that is no positive number is ignored
handleMaxFileSizeChange(s, newSize) ==
    IF newSize > 0 THEN [s EXCEPT !.maxFileSizeMB = newSize] ELSE s

\* the checkpoint holds what the retried stage needs
\* a retry whose stage is started whatever the checkpoint holds
NoPrerequisite(data) == TRUE

\* if (intermediateData.convertedMp3)
HasConvertedMp3(data) == "convertedMp3" \in data.keys

\* if (intermediateData.segments && intermediateData.segments.length > 0)
HasSegments(data) == "segments" \in data.keys /\ Len(data.segments) > 0

\* retry of the Transcribe stage that splits the converted audio again
retryTranscribeBySplitting(s, t) ==
    runSplittingStep(s, t, s.intermediateData.convertedMp3)

\* case "transcribe" of retryStep
retryTranscribe(s, t) ==
    runTranscriptionStep(s, t, s.intermediateData.segments)

\* the retry finds no prerequisite: the error status, nothing else
refuseRetry(s, t, step) ==
    [failStage(s, t, step) EXCEPT !.ev.type = "refused"]

\* retryStep that sets only the retried stage to idle
retryStepAlone(s, t, step) ==
    LET newStatus == [s.stepStatus EXCEPT ![step] = "idle"]
        s1 == [s EXCEPT !.stepStatus = newStatus, !.pipelineStep = stepIndexMap[step],
                        !.tasks[t] = NewTask(s), !.requests = @ + 1,
                        !.ev = [Event("step", step, t) EXCEPT !.request = step]]
    IN CASE step = "setup" -> loadFFmpeg(s1, t)
         [] step = "convert" -> runConversionStep(s1, t)
         [] step = "split" ->
              IF HasConvertedMp3(s.intermediateData)
              THEN runSplittingStep(s1, t, s.intermediateData.convertedMp3)
              ELSE refuseRetry(s1, t, step)
         [] step = "transcribe" ->
              IF HasSegments(s.intermediateData)
              THEN retryTranscribe(s1, t)
              ELSE refuseRetry(s1, t, step)
         [] OTHER ->
              IF s.transcriptionResult # <<>>
              THEN handleSendToLLM(s1, t)
              ELSE refuseRetry(s1, t, step)

\* retryStep(step) up to its first await
retryStep(s, t, step) ==
    LET newStatus == [k \in StepNames |->
                        IF stepIndexMap[k] >= stepIndexMap[step] THEN "idle"
                        ELSE s.stepStatus[k]]
        s1 == [s EXCEPT !.stepStatus = newStatus, !.pipelineStep = stepIndexMap[step],
                        !.tasks[t] = NewTask(s), !.requests = @ + 1,
                        !.ev = [Event("step", step, t) EXCEPT !.request = step]]
    IN CASE step = "setup" -> loadFFmpeg(s1, t)
         [] step = "convert" -> runConversionStep(s1, t)
         [] step = "split" ->
              IF HasConvertedMp3(s.intermediateData)
              THEN runSplittingStep(s1, t, s.intermediateData.convertedMp3)
              ELSE refuseRetry(s1, t, step)
         [] step = "transcribe" ->
              IF HasSegments(s.intermediateData)
              THEN retryTranscribe(s1, t)
              ELSE refuseRetry(s1, t, step)
         [] OTHER ->
              IF s.transcriptionResult # <<>>
              THEN handleSendToLLM(s1, t)
              ELSE refuseRetry(s1, t, step)

\* the component once it is mounted: loadFFmpeg awaits the load of the
\* instance the ref was made with
Mounted(key, auto) ==
    [loaded |-> FALSE, inputFile |-> NoFile, transcriptionResult |-> <<>>,
     transcribing |-> FALSE, pipelineStep |-> 0,
     stepStatus |-> [ResetStatus EXCEPT !.setup = "loading"],
     intermediateData |-> EmptyData, segmentUrls |-> <<>>,
     selectedApi |-> "groq", groqKey |-> key, openaiKey |-> "",
     autoTranscribe |-> auto, isFromRecording |-> FALSE,
     maxFileSizeMB |-> DefaultFileSizeMB, isGeneratingChat |-> FALSE,
     ffmpegRef |-> 1,
     instances |-> [k \in 1..MaxInstances |-> IF k = 1 THEN NewInstance ELSE NoInstance],
     tasks |-> [t \in Tasks |-> IF t = 1 THEN [FreeTask EXCEPT !.pc = "load", !.ffmpeg = 1]
                                ELSE FreeTask],
     orphans |-> 0, requests |-> 0, ev |-> Event("step", "setup", 1)]

\* the variables hold the state s
Begin(s) ==
    /\ loaded = s.loaded
    /\ inputFile = s.inputFile
    /\ transcriptionResult = s.transcriptionResult
    /\ transcribing = s.transcribing
    /\ pipelineStep = s.pipelineStep
    /\ stepStatus = s.stepStatus
    /\ intermediateData = s.intermediateData
    /\ segmentUrls = s.segmentUrls
    /\ selectedApi = s.selectedApi
    /\ groqKey = s.groqKey
    /\ openaiKey = s.openaiKey
    /\ autoTranscribe = s.autoTranscribe
    /\ isFromRecording = s.isFromRecording
    /\ maxFileSizeMB = s.maxFileSizeMB
    /\ isGeneratingChat = s.isGeneratingChat
    /\ ffmpegRef = s.ffmpegRef
    /\ instances = s.instances
    /\ tasks = s.tasks
    /\ orphans = s.orphans
    /\ requests = s.requests
    /\ ev = s.ev

\* the component during the runs of the stitcher and of the splitter alone
AppIdle == Begin(Mounted("", FALSE))

\* ------------------------------------------------------------------------
\* The inputs of the stitcher runs
\* ------------------------------------------------------------------------
OverlapWords == 8       \* words shared by the two pieces of an overlapping pair
MaxExtraWords == 3      \* words before the shared words of A, after those of B
MaxPlainWords == 6      \* words of a piece of an unrelated pair
LongOverlapWords == 12  \* words shared by the two pieces of a long overlapping pair

\* the word of k letters c
Rep(c, k) == [i \in 1..k |-> c]

\* n shared words of period p: word i is letter ((i-1) mod p) + 1
SharedWords(letters, n, p) == [i \in 1..n |-> <<letters[((i - 1) % p) + 1]>>]

\* k distinct words x, xx, xxx, ...
ExtraWords(c, k) == [i \in 1..k |-> Rep(c, i)]

\* pairs <<A, B>>: A ends with the shared words, B begins with them (in the
\* same or in upper case), B possibly after leading whitespace
OverlapPairs ==
    { << join(ExtraWords("x", pre) \o SharedWords(LowerLetters, OverlapWords, p)),
         lead \o join(SharedWords(IF up THEN UpperLetters ELSE LowerLetters, OverlapWords, p)
                      \o ExtraWords("y", suf)) >> :
        p \in 1..OverlapWords, pre \in 0..MaxExtraWords, suf \in 0..MaxExtraWords,
        up \in BOOLEAN, lead \in {<<>>, <<" ">>} }

\* pairs <<A, B>> that share more words than the stitcher's window holds: A
\* ends with LongOverlapWords words, B begins with them
LongPairs ==
    { << join(ExtraWords("x", pre) \o SharedWords(LowerLetters, LongOverlapWords, p)),
         join(SharedWords(LowerLetters, LongOverlapWords, p) \o ExtraWords("y", suf)) >> :
        p \in 1..OverlapWords, pre \in 0..MaxExtraWords, suf \in 0..MaxExtraWords }

\* pairs <<A, B>> of pieces with no word in common, with or without
\* whitespace around them
PlainPairs ==
    { << la \o join(ExtraWords("x", na)) \o ta,
         lb \o join(ExtraWords("y", nb)) \o tb >> :
        na \in 0..MaxPlainWords, nb \in 0..MaxPlainWords,
        la \in {<<>>, <<" ">>}, ta \in {<<>>, <<"\n">>},
        lb \in {<<>>, <<" ">>}, tb \in {<<>>, <<" ">>} }

\* the empty list and the one-piece lists
ShortLists ==
    {<<>>} \cup { << l \o join(ExtraWords("x", n)) \o t >> :
                    n \in 0..MaxExtraWords, l \in {<<>>, <<" ">>, <<"\n", " ">>},
                    t \in {<<>>, <<" ">>} }

StitchInputs == OverlapPairs \cup LongPairs \cup PlainPairs \cup ShortLists

\* ------------------------------------------------------------------------
\* The inputs of the splitter runs
\* ------------------------------------------------------------------------
MaxDurSec == 40         \* longest audio, in seconds
MaxFailDepth == 1       \* probes may fail on the files down to this depth

SplitLimit == 1000      \* the size limit of the splitter runs, in bytes
SplitRates == {50, 100, 125, 150, 200}     \* bytes per second of the audios

SplitDurations == {d \in 0..MaxDurSec : d <= 12 \/ d % 4 = 0}

RECURSIVE FilesToDepth(_, _)
FilesToDepth(totalDur, depth) ==
    IF depth = 0 THEN {<<OutputMp3, totalDur>>}
    ELSE LET up == FilesToDepth(totalDur, depth - 1)
             cuts(f) == LET t == CutTimes(f[2])
                        IN {<<CutName(f[1], "left", t.halfTime), t.left[2] - t.left[1]>>,
                            <<CutName(f[1], "right", t.halfTime), t.right[2] - t.right[1]>>}
         IN up \cup UNION {cuts(f) : f \in up}

\* the file names the splitter can reach down to MaxFailDepth
FileNames(totalDur) == {f[1] : f \in FilesToDepth(totalDur, MaxFailDepth)}

\* an audio of 3,500,000 bytes and 600 s under a limit of 1,000,000 bytes
TenMinutes == [mp3 |-> Audio(3500000, 600), maxBytes |-> 1000000, failing |-> {}]

SplitInputs ==
    { [mp3 |-> Audio(r * d, d), maxBytes |-> SplitLimit, failing |-> fl] :
        r \in SplitRates, d \in SplitDurations, fl \in {{}} }
    \cup UNION { { [mp3 |-> Audio(r * d, d), maxBytes |-> SplitLimit, failing |-> fl] :
                     fl \in SUBSET FileNames(d * TicksPerSec) } :
                 r \in SplitRates, d \in SplitDurations }
    \cup { [mp3 |-> [size |-> sz, dur |-> 0], maxBytes |-> SplitLimit, failing |-> {}] :
             sz \in {SplitLimit, SplitLimit + 1} }
    \cup {TenMinutes}

SplitIdle == /\ spIn = [mp3 |-> Audio(0, 0), maxBytes |-> SplitLimit, failing |-> {}]
             /\ spPc = "idle"
             /\ spOut = SplitResult(<<>>, "none", 0, 0)

StitchIdle == /\ stIn = <<>>
              /\ stPc = "idle"
              /\ stOut = <<>>

InitSplit == /\ spIn \in SplitInputs
             /\ spPc = "in"
             /\ spOut = SplitResult(<<>>, "none", 0, 0)
             /\ StitchIdle
             /\ AppIdle

\* the Split stage on the converted audio
SplitCall == /\ spPc = "in"
             /\ spOut' = SplitStage(spIn.mp3, spIn.maxBytes, spIn.failing)
             /\ spPc' = "out"
             /\ UNCHANGED <<spIn, stitchVars, appVars>>

NextSplit == SplitCall

SpecSplit == InitSplit /\ [][NextSplit]_vars

InitStitch == /\ stIn \in StitchInputs
              /\ stPc = "in"
              /\ stOut = <<>>
              /\ SplitIdle
              /\ AppIdle

\* the call improvedStitchTranscriptions(transcripts, appendLog)
StitchCall == /\ stPc = "in"
              /\ stOut' = improvedStitchTranscriptions(stIn)
              /\ stPc' = "out"
              /\ UNCHANGED <<stIn, splitVars, appVars>>

NextStitch == StitchCall

SpecStitch == InitStitch /\ [][NextStitch]_vars

\* ------------------------------------------------------------------------
\* The component: the state after it is mounted (loadFFmpeg awaits the
\* load), and one action per handler and per await that resolves or throws
\* ------------------------------------------------------------------------
Init ==
    /\ \E key \in {"", "gsk"}, auto \in BOOLEAN : Begin(Mounted(key, auto))
    /\ StitchIdle
    /\ SplitIdle

RECURSIVE SumOf(_, _)
SumOf(f, ks) == IF ks = {} THEN 0
                ELSE LET k == CHOOSE x \in ks : TRUE IN f[k] + SumOf(f, ks \ {k})

AbandonedReads(s) == SumOf([k \in 1..MaxInstances |-> Len(s.instances[k].reads)], 1..MaxInstances)

Commit(s0) ==
    LET s == Collect(s0)
    IN /\ s.orphans + AbandonedReads(s) <= MaxOrphans
       /\ s.requests <= MaxRequests
       /\ loaded' = s.loaded
       /\ inputFile' = s.inputFile
       /\ transcriptionResult' = s.transcriptionResult
       /\ transcribing' = s.transcribing
       /\ pipelineStep' = s.pipelineStep
       /\ stepStatus' = s.stepStatus
       /\ intermediateData' = s.intermediateData
       /\ segmentUrls' = s.segmentUrls
       /\ selectedApi' = s.selectedApi
       /\ groqKey' = s.groqKey
       /\ openaiKey' = s.openaiKey
       /\ autoTranscribe' = s.autoTranscribe
       /\ isFromRecording' = s.isFromRecording
       /\ maxFileSizeMB' = s.maxFileSizeMB
       /\ isGeneratingChat' = s.isGeneratingChat
       /\ ffmpegRef' = s.ffmpegRef
       /\ instances' = s.instances
       /\ tasks' = s.tasks
       /\ orphans' = s.orphans
       /\ requests' = s.requests
       /\ ev' = s.ev
       /\ UNCHANGED <<stitchVars, splitVars>>

\* the state with the step of task t recorded
Do(t, stage) == [State EXCEPT !.ev = Event("step", stage, t)]

FreeSlots == {t \in Tasks : tasks[t].pc = "free"}
Slot == CHOOSE t \in FreeSlots : \A u \in FreeSlots : t <= u

\* ---- the operator ----
\* uploadProps.beforeUpload
BeforeUpload ==
    \E file \in UploadFiles :
        Commit([State EXCEPT !.isFromRecording = FALSE, !.inputFile = file])

\* uploadProps.onRemove
OnRemove ==
    /\ inputFile # NoFile
    /\ Commit([State EXCEPT !.inputFile = NoFile, !.isFromRecording = FALSE])

\* the effect on [autoTranscribe, inputFile, isFromRecording]
autoTranscribeEffect(s, t) ==
    IF s.autoTranscribe /\ s.inputFile # NoFile /\ s.isFromRecording
    THEN transcribeFile(s, t) ELSE s

\* handleRecordingComplete, and the effect it triggers
RecordingComplete ==
    /\ FreeSlots # {}
    /\ Commit(autoTranscribeEffect([State EXCEPT !.isFromRecording = TRUE,
                                                !.inputFile = RecordingFile], Slot))

\* the Auto-transcribe switch, and the effect it triggers
ToggleAutoTranscribe ==
    /\ FreeSlots # {}
    /\ Commit(autoTranscribeEffect([State EXCEPT !.autoTranscribe = ~autoTranscribe], Slot))

\* handleApiProviderChange: the provider select, never disabled
ApiProviderChange ==
    \E provider \in {"groq", "openai"} :
        /\ provider # selectedApi
        /\ Commit([State EXCEPT !.selectedApi = provider])

\* handleGroqKeyChange and handleOpenaiKeyChange: a key entered or removed
GroqKeyChange ==
    \E key \in {"", "gsk"} :
        /\ key # groqKey
        /\ Commit([State EXCEPT !.groqKey = key])

OpenaiKeyChange ==
    \E key \in {"", "sk"} :
        /\ key # openaiKey
        /\ Commit([State EXCEPT !.openaiKey = key])

\* the Max file size input
MaxFileSizeChange ==
    \E newSize \in FileSizeInputs :
        /\ newSize # maxFileSizeMB
        /\ Commit(handleMaxFileSizeChange(State, newSize))

\* the transcript textarea, shown while there is a transcript
TranscriptEdit ==
    /\ transcriptionResult # <<>>
    /\ \E text \in EditedTexts :
        /\ text # transcriptionResult
        /\ Commit([State EXCEPT !.transcriptionResult = text])

\* the Send button of the LLM panel, shown while there is a transcript
SendToLLM ==
    /\ transcriptionResult # <<>> /\ ~isGeneratingChat
    /\ FreeSlots # {}
    /\ Commit(handleSendToLLM([State EXCEPT !.tasks[Slot] = NewTask(State),
                                            !.requests = @ + 1,
                                            !.ev = [Event("step", "summarize", Slot)
                                                       EXCEPT !.request = "chat"]], Slot))

\* the Transcribe File button
TranscribeFileClick ==
    /\ ~(transcribing \/ pipelineStep < 1 \/ isAnyStepLoading(State))
    /\ inputFile # NoFile /\ loaded
    /\ FreeSlots # {}
    /\ Commit(transcribeFile(State, Slot))

\* the Retry buttons, each shown while its stage has status error
RetrySetup ==
    /\ stepStatus.setup = "error" /\ FreeSlots # {}
    /\ Commit(retryStep(State, Slot, "setup"))

RetryConvert ==
    /\ stepStatus.convert = "error" /\ FreeSlots # {}
    /\ Commit(retryStep(State, Slot, "convert"))

RetrySplit ==
    /\ stepStatus.split = "error" /\ FreeSlots # {}
    /\ Commit(retryStep(State, Slot, "split"))

RetryTranscribe ==
    /\ stepStatus.transcribe = "error" /\ FreeSlots # {}
    /\ Commit(retryStep(State, Slot, "transcribe"))

RetrySummarize ==
    /\ stepStatus.summarize = "error" /\ FreeSlots # {}
    /\ Commit(retryStep(State, Slot, "summarize"))

\* the Reset Application button, shown while transcribe has status error
PerformCleanup ==
    /\ stepStatus.transcribe = "error" /\ FreeSlots # {}
    /\ Commit(startCleanup([State EXCEPT !.requests = @ + 1,
                                         !.ev = [Event("step", "cleanup", Slot)
                                                    EXCEPT !.request = "cleanup"]],
                           Slot, "manual"))

\* ---- the awaits ----
LoadDone(t) ==
    /\ tasks[t].pc = "load"
    /\ \E ok \in BOOLEAN :
        Commit(IF ok THEN loadResolved(Do(t, "setup"), t)
               ELSE failStage(Do(t, "setup"), t, "setup"))

Unmounted(t) ==
    /\ tasks[t].pc = "unmount"
    /\ Commit(unmounted(Do(t, "cleanup"), t))

Created(t) ==
    /\ tasks[t].pc = "create"
    /\ \E ok \in BOOLEAN : Commit(created(Do(t, "cleanup"), t, ok))

\* the codec calls of the conversion resolve, on a live instance, or one throws
ConvertDone(t) ==
    /\ tasks[t].pc = "convert"
    /\ \E ok \in BOOLEAN :
        /\ ok => Alive(State, tasks[t].ffmpeg)
        /\ Commit(IF ok THEN convertResolved(Do(t, "convert"), t)
                  ELSE failStage(Do(t, "convert"), t, "convert"))

\* the split comes to its end, or a codec call throws
SplitDone(t) ==
    /\ tasks[t].pc = "split"
    /\ \E ok \in BOOLEAN :
        /\ ok => CanSplit(State, t, {})
        /\ Commit(IF ok THEN splitResolved(Do(t, "split"), t, {})
                  ELSE failStage(Do(t, "split"), t, "split"))

\* the codec answers the reads in the order they were asked: the read of
\* the first waiting invocation of the batch resolves, the file being there,
\* or rejects
ReadDone(t) ==
    /\ tasks[t].pc = "batch" /\ tasks[t].reading # {}
    /\ LET j == CHOOSE k \in tasks[t].reading : \A l \in tasks[t].reading : k <= l
       IN \E ok \in BOOLEAN :
            /\ ok => Readable(State, tasks[t].ffmpeg, tasks[t].segments[j].filename)
            /\ Commit(IF ok THEN readResolved(Do(t, "transcribe"), t, j)
                      ELSE readRejected(Do(t, "transcribe"), t, j))

\* a provider call of the batch resolves or rejects
CallDone(t) ==
    /\ tasks[t].pc = "batch"
    /\ \E j \in tasks[t].pending, ok \in BOOLEAN :
        Commit(IF ok THEN callResolved(Do(t, "transcribe"), t, j)
               ELSE callRejected(Do(t, "transcribe"), t, j))

\* the chat completion arrives or throws
ChatDone(t) ==
    /\ tasks[t].pc = "chat"
    /\ \E ok \in BOOLEAN :
        Commit(IF ok THEN chatResolved(Do(t, "summarize"), t)
               ELSE chatRejected(Do(t, "summarize"), t))

\* the timer between two batches fires
DelayElapsed(t) ==
    /\ tasks[t].pc = "delay"
    /\ Commit(delayElapsed(Do(t, "transcribe"), t))

\* an abandoned provider call comes to its end
OrphanDone ==
    /\ orphans > 0
    /\ Commit([State EXCEPT !.orphans = @ - 1])

\* an abandoned read comes to its end
OrphanReadDone ==
    \E k \in 1..MaxInstances, ok \in BOOLEAN :
        /\ instances[k].reads # <<>>
        /\ ok => Readable(State, k, Head(instances[k].reads))
        /\ Commit(IF ok THEN orphanReadResolved(State, k) ELSE orphanReadRejected(State, k))

Next ==
    \/ BeforeUpload
    \/ OnRemove
    \/ RecordingComplete
    \/ ToggleAutoTranscribe
    \/ TranscribeFileClick
    \/ RetrySetup
    \/ RetryConvert
    \/ RetrySplit
    \/ RetryTranscribe
    \/ RetrySummarize
    \/ SendToLLM
    \/ PerformCleanup
    \/ \E t \in Tasks : LoadDone(t)
    \/ \E t \in Tasks : Unmounted(t)
    \/ \E t \in Tasks : Created(t)
    \/ \E t \in Tasks : ConvertDone(t)
    \/ \E t \in Tasks : SplitDone(t)
    \/ \E t \in Tasks : ReadDone(t)
    \/ \E t \in Tasks : CallDone(t)
    \/ \E t \in Tasks : ChatDone(t)
    \/ OrphanDone
    \/ OrphanReadDone

Spec == Init /\ [][Next]_vars

\* ------------------------------------------------------------------------
\* The batch scheduler on its own: a run of Transcribe File on a selected
\* file, taken from the moment its Split stage has succeeded, with the
\* retries of the Transcribe stage
\* ------------------------------------------------------------------------
\* the files the split of lecture.mp4 cuts down to depth 3
LectureFiles == {f[1] : f \in FilesToDepth(Converted("lecture.mp4").dur, 3)}

\* the probes that print no Duration line: none (16 segments of lecture.mp4),
\* those of the two quarters of its first half (10 segments), and those of
\* its first quarter and of the two halves of its last quarter (11 segments)
NoProbeFails == {}
TenSegments == {f \in LectureFiles : Len(f) = 2 /\ f[1][1] = "left"}
ElevenSegments ==
    {f \in LectureFiles :
        \/ Len(f) = 2 /\ f[1][1] = "left" /\ f[2][1] = "left"
        \/ Len(f) = 3 /\ f[1][1] = "right" /\ f[2][1] = "right"}

\* the selected file and the probes that fail during its split
SchedInputs ==
    {<<"note.wav", NoProbeFails>>, <<"lecture.mp4", NoProbeFails>>,
     <<"lecture.mp4", TenSegments>>, <<"lecture.mp4", ElevenSegments>>}

\* the codec is loaded, the keys of both providers entered or none, the
\* file selected, Transcribe File pressed, the conversion and the split done
AfterSplit(key, file, failing) ==
    LET s0 == [loadResolved(Mounted(key, FALSE), 1)
                  EXCEPT !.openaiKey = IF key = "" THEN "" ELSE "sk"]
        s1 == transcribeFile([s0 EXCEPT !.inputFile = file], 1)
        s2 == convertResolved(s1, 1)
    IN Collect(splitResolved(s2, 1, failing))

InitSched ==
    /\ \E key \in {"", "gsk"}, in \in SchedInputs : Begin(AfterSplit(key, in[1], in[2]))
    /\ StitchIdle
    /\ SplitIdle

NextSched ==
    \/ RetryTranscribe
    \/ \E t \in Tasks : ReadDone(t)
    \/ \E t \in Tasks : CallDone(t)
    \/ \E t \in Tasks : DelayElapsed(t)
    \/ \E t \in Tasks : Unmounted(t)
    \/ \E t \in Tasks : Created(t)
    \/ OrphanDone
    \/ OrphanReadDone

SpecSched == InitSched /\ [][NextSched]_vars

\* ------------------------------------------------------------------------
\* A Transcribe stage of two batches during which the operator switches the
\* provider and enters or removes the OpenAI key: lecture.mp4 in 11
\* segments, the keys of both providers entered
\* ------------------------------------------------------------------------
InitSwitch ==
    /\ Begin(AfterSplit("gsk", "lecture.mp4", ElevenSegments))
    /\ StitchIdle
    /\ SplitIdle

NextSwitch ==
    \/ ApiProviderChange
    \/ OpenaiKeyChange
    \/ \E t \in Tasks : ReadDone(t)
    \/ \E t \in Tasks : CallDone(t)
    \/ \E t \in Tasks : DelayElapsed(t)
    \/ \E t \in Tasks : Unmounted(t)
    \/ \E t \in Tasks : Created(t)
    \/ OrphanDone
    \/ OrphanReadDone

SpecSwitch == InitSwitch /\ [][NextSwitch]_vars

\* ------------------------------------------------------------------------
\* The settings: the codec is loaded, note.wav is selected and no key is
\* entered; the operator enters and removes the Groq key, changes the size
\* limit, edits the transcript, and runs and retries in between
\* ------------------------------------------------------------------------
InitSettings ==
    /\ Begin([loadResolved(Mounted("", FALSE), 1) EXCEPT !.inputFile = "note.wav"])
    /\ StitchIdle
    /\ SplitIdle

NextSettings ==
    \/ GroqKeyChange
    \/ MaxFileSizeChange
    \/ TranscriptEdit
    \/ TranscribeFileClick
    \/ RetryTranscribe
    \/ \E t \in Tasks : Unmounted(t)
    \/ \E t \in Tasks : Created(t)
    \/ \E t \in Tasks : ConvertDone(t)
    \/ \E t \in Tasks : SplitDone(t)
    \/ \E t \in Tasks : ReadDone(t)
    \/ \E t \in Tasks : CallDone(t)
    \/ OrphanDone
    \/ OrphanReadDone

SpecSettings == InitSettings /\ [][NextSettings]_vars

\* ------------------------------------------------------------------------
\* A whole run with a Transcribe stage of one batch or of two: the codec is
\* loaded, the Groq key entered, note.wav (2 segments) or lecture.mp4 (16
\* segments) selected and Transcribe File pressed; every await of the stages
\* may resolve or throw, and the operator retries the stages that fail
\* ------------------------------------------------------------------------
HaltFiles == {"note.wav", "lecture.mp4"}

InitHalt ==
    /\ \E file \in HaltFiles :
          Begin(transcribeFile([loadResolved(Mounted("gsk", FALSE), 1)
                                   EXCEPT !.inputFile = file], 1))
    /\ StitchIdle
    /\ SplitIdle

NextHalt ==
    \/ RetryConvert
    \/ RetrySplit
    \/ RetryTranscribe
    \/ \E t \in Tasks : Unmounted(t)
    \/ \E t \in Tasks : Created(t)
    \/ \E t \in Tasks : ConvertDone(t)
    \/ \E t \in Tasks : SplitDone(t)
    \/ \E t \in Tasks : ReadDone(t)
    \/ \E t \in Tasks : CallDone(t)
    \/ \E t \in Tasks : DelayElapsed(t)
    \/ OrphanDone
    \/ OrphanReadDone

SpecHalt == InitHalt /\ [][NextHalt]_vars

\* ------------------------------------------------------------------------
\* Properties of the pipeline
\* ------------------------------------------------------------------------
\* the provider calls in flight: those the batches wait for and those a
\* rejected batch has left behind
PendingCalls == UNION {{<<t, j>> : j \in tasks[t].pending} : t \in Tasks}
InFlight == Cardinality(PendingCalls) + orphans

\* C2: at every moment at most 10 provider calls are in flight.
C2_AtMostTenInFlight == InFlight <= concurrencyLimit

\* this step is taken by a handler (a request of the operator or the end of
\* an await), not by the operator alone and not by an abandoned call
HandlerStep == tasks' # tasks \/ requests' # requests

\* what transcribeSegment returns for a segment under the closure c
TextOfCall(c, seg) ==
    IF KeyMissing(c) THEN <<>> ELSE ProviderText(c.selectedApi, seg.filename)

\* the Transcribe stage of task t succeeds in this step
StageSucceeds(t) == HandlerStep /\ ev'.type = "done" /\ ev'.task = t

\* the Transcribe stage, once started
InTranscribe == {"batch", "delay"}

\* the segments of the stage that succeeds in this step: those the task
\* holds, or, the stage having started in this very step, those checkpointed
StageSegments(t) ==
    IF tasks[t].pc \in InTranscribe THEN tasks[t].segments
    ELSE intermediateData'.segments

\* C3: when the Transcribe stage succeeds, the pieces it stores and hands to
\* the stitcher are one per segment, piece i being the result of the call
\* made for segment i, in whatever order the calls of a batch completed.
C3_PiecesInSegmentOrder ==
    [][\A t \in Tasks :
        StageSucceeds(t) =>
            LET sync == tasks[t].pc = "free"
                c == IF sync THEN NewTask(State) ELSE tasks[t]
                segs == StageSegments(t)
                pieces == intermediateData'.transcripts
            IN /\ Len(pieces) = Len(segs)
               /\ \A i \in 1..Len(segs) : pieces[i] = TextOfCall(c, segs[i])
               /\ transcriptionResult' = improvedStitchTranscriptions(pieces)]_vars

\* a stage of two segments or more has succeeded with text from the
\* provider, a call having completed before the call of an earlier segment
C3_Witness ==
    /\ ev.type = "done" /\ ev.swapped
    /\ Len(intermediateData.transcripts) >= 2
    /\ \A i \in 1..Len(intermediateData.transcripts) : intermediateData.transcripts[i] # <<>>

\* the stage of task t throws in this step
StageFails(t) == HandlerStep /\ ev'.type = "fail" /\ ev'.task = t

\* C4: when a stage fails its status becomes error, the handler starts no
\* later stage and no batch and produces no transcript; and a handler is
\* started, and a transcript produced, by nothing but a handler that a
\* request of the operator started.
C4_FailureHalts ==
    [][/\ \A t \in Tasks :
            StageFails(t) =>
                /\ stepStatus'[ev'.stage] = "error"
                /\ tasks'[t].pc = "free"
                /\ \A u \in Tasks : tasks'[u].pending \subseteq tasks[u].pending
                /\ \A u \in Tasks : tasks'[u].reading \subseteq tasks[u].reading
                /\ \A u \in Tasks :
                      tasks'[u].pc \in InTranscribe =>
                          (tasks'[u].pc = tasks[u].pc /\ tasks'[u].i = tasks[u].i)
                /\ \A k \in StepNames :
                      (stepIndexMap[k] > stepIndexMap[ev'.stage] /\ stepStatus'[k] = "loading")
                          => stepStatus[k] = "loading"
                /\ transcriptionResult' = transcriptionResult
                /\ "transcripts" \in intermediateData'.keys => "transcripts" \in intermediateData.keys
       /\ \A t \in Tasks :
            (tasks[t].pc = "free" /\ tasks'[t].pc # "free") => requests' = requests + 1
       /\ (HandlerStep /\ transcriptionResult' # transcriptionResult
                       /\ transcriptionResult' # <<>>)
            => \E t \in Tasks : StageSucceeds(t)]_vars

\* an invocation of transcribeSegment for a segment in js is left waiting
\* for its file after the batch it belonged to was rejected
LeftReading(js) ==
    \E k \in 1..MaxInstances, j \in js :
        /\ instances[k].reads # <<>>
        /\ j <= Len(intermediateData.segments)
        /\ Head(instances[k].reads) = intermediateData.segments[j].filename

\* the Transcribe stage of a run has thrown, the stages before it having
\* succeeded: it is in error, no batch is running or waiting for its timer,
\* and there is no transcript
TranscribeHalted ==
    /\ ev.type = "fail" /\ ev.stage = "transcribe" /\ ev.request = "none"
    /\ stepStatus.convert = "success" /\ stepStatus.split = "success"
    /\ stepStatus.transcribe = "error"
    /\ \A t \in Tasks : tasks[t].pc = "free"
    /\ transcriptionResult = <<>>
    /\ "transcripts" \notin intermediateData.keys

\* the first batch of a stage of more than 10 segments has failed while
\* another invocation of the batch was waiting for its file: the stage has
\* halted with the segments of the second batch never asked for
C4_Witness ==
    /\ TranscribeHalted
    /\ Len(intermediateData.segments) > concurrencyLimit
    /\ LeftReading(1..concurrencyLimit)

\* the second batch of such a stage has failed, after the first had
\* succeeded and the timer fired
C4_WitnessSecondBatch ==
    /\ TranscribeHalted
    /\ LeftReading((concurrencyLimit + 1)..(2 * concurrencyLimit))

\* an instance without the reads it has been left with
FilesOnly(instance) == [instance EXCEPT !.reads = <<>>]

\* no codec call that writes in this step: no instance is made and none has
\* its files changed
NoCodecCall ==
    \A k \in 1..MaxInstances :
        \/ FilesOnly(instances'[k]) = FilesOnly(instances[k])
        \/ instances'[k] = NoInstance

\* the operator retries the stage in this step
Retries(step) == requests' = requests + 1 /\ ev'.request = step

\* C5: a retry of the Transcribe stage runs the stage on the checkpointed
\* segment list: the handler converts nothing, probes nothing and cuts
\* nothing, and the checkpointed list stays as it was.
C5_RetryReusesSegments ==
    [][/\ (Retries("transcribe") /\ "segments" \in intermediateData.keys
                                 /\ Len(intermediateData.segments) > 0) =>
            LET t == ev'.task
            IN /\ tasks'[t].pc \in InTranscribe \cup {"unmount", "free"}
               /\ tasks'[t].pc \in InTranscribe => tasks'[t].segments = intermediateData.segments
               /\ tasks'[t].pc = "unmount" => Len(intermediateData'.transcripts) = Len(intermediateData.segments)
               /\ intermediateData'.segments = intermediateData.segments
               /\ intermediateData'.convertedMp3 = intermediateData.convertedMp3
               /\ intermediateData.keys \subseteq intermediateData'.keys
               /\ NoCodecCall
       /\ \A t \in Tasks :
            (tasks[t].pc \in InTranscribe /\ ev'.task = t /\ ev'.request = "none" /\ HandlerStep) =>
               /\ tasks'[t].pc \in InTranscribe \cup {"unmount", "free"}
               /\ tasks'[t].pc \in InTranscribe => tasks'[t].segments = tasks[t].segments
               /\ intermediateData'.segments = intermediateData.segments
               /\ intermediateData'.convertedMp3 = intermediateData.convertedMp3
               /\ NoCodecCall]_vars

\* the Transcribe stage has been retried and waits for the files of the
\* checkpointed segments, two or more, to be read
C5_Witness ==
    /\ ev.request = "transcribe" /\ ev.type = "step"
    /\ stepStatus.transcribe = "loading"
    /\ tasks[ev.task].pc = "batch"
    /\ tasks[ev.task].segments = intermediateData.segments
    /\ Cardinality(tasks[ev.task].reading) >= 2

\* C6: a retry of Split without a converted audio in the checkpoint, and a
\* retry of Transcribe without a segment list in it, set the stage to error
\* and do nothing else: no codec call, no provider call, no checkpoint.
C6_RetryWithoutPrerequisite ==
    [][\A step \in {"split", "transcribe"} :
        (/\ Retries(step)
         /\ IF step = "split" THEN "convertedMp3" \notin intermediateData.keys
            ELSE "segments" \notin intermediateData.keys \/ intermediateData.segments = <<>>) =>
            /\ stepStatus'[step] = "error"
            /\ instances' = instances /\ ffmpegRef' = ffmpegRef
            /\ tasks' = tasks
            /\ orphans' = orphans
            /\ intermediateData' = intermediateData
            /\ transcriptionResult' = transcriptionResult
            /\ transcribing' = transcribing]_vars

\* Split has been retried with no converted audio in the checkpoint
C6_Witness ==
    /\ ev.type = "refused" /\ ev.stage = "split" /\ ev.request = "split"
    /\ "convertedMp3" \notin intermediateData.keys
    /\ stepStatus.split = "error"

\* Transcribe has been retried with no segment list in the checkpoint
C6_WitnessTranscribe ==
    /\ ev.type = "refused" /\ ev.stage = "transcribe" /\ ev.request = "transcribe"
    /\ "segments" \notin intermediateData.keys
    /\ stepStatus.transcribe = "error"

\* ------------------------------------------------------------------------
\* Properties of the stitcher
\* ------------------------------------------------------------------------
\* the words of a text: its tokens, none when the text is blank
Words(s) == IF trim(s) = <<>> THEN <<>> ELSE split(trim(s))

LowerWords(ws) == [i \in 1..Len(ws) |-> toLowerCase(ws[i])]

\* the first n words of B are the last n words of A, case-insensitively
SharesWords(A, B, n) ==
    /\ Len(Words(A)) >= n
    /\ Len(Words(B)) >= n
    /\ LowerWords(SliceLast(Words(A), n)) = LowerWords(SliceFirst(Words(B), n))

\* A followed by B without B's first n words
JoinedOnce(A, B, n) == trim(trim(A) \o <<" ">> \o join(SliceFrom(Words(B), n)))

\* C9: for two pieces A and B where B's first 8 words equal A's last 8 words
\* case-insensitively, stitch([A, B]) contains those 8 words exactly once at
\* the junction: it is A followed by B without its first 8 words, whatever the
\* 8 words are (repeated and periodic words included).
C9_SharedWordsOnce ==
    (stPc = "out" /\ Len(stIn) = 2 /\ SharesWords(stIn[1], stIn[2], OverlapWords))
        => stOut = JoinedOnce(stIn[1], stIn[2], OverlapWords)

\* no candidate overlap length reaches the threshold between A and B
NoOverlapFound(A, B) ==
    LET best == OverlapFor(trim(A), B)
    IN ~(ScoreReaches(best.score) /\ best.overlapCount > 0)

\* C10: for two pieces A and B for which no candidate overlap length reaches
\* the 0.8 threshold (each with at least one word), stitch([A, B]) is
\* trim(A) + " " + trim(B), also when B begins with whitespace.
C10_PlainConcatenation ==
    (/\ stPc = "out" /\ Len(stIn) = 2
     /\ Words(stIn[1]) # <<>> /\ Words(stIn[2]) # <<>>
     /\ NoOverlapFound(stIn[1], stIn[2]))
        => stOut = trim(stIn[1]) \o <<" ">> \o trim(stIn[2])

\* s without the whitespace before its first and after its last character
\* that is no whitespace
Inked(s) == {i \in 1..Len(s) : s[i] \notin Whitespace}
Trimmed(s) ==
    IF Inked(s) = {} THEN <<>>
    ELSE SubSeq(s, CHOOSE i \in Inked(s) : \A j \in Inked(s) : i <= j,
                   CHOOSE i \in Inked(s) : \A j \in Inked(s) : i >= j)

\* C11: stitch of the empty list is the empty string, and stitch of a list
\* of one piece s is trim(s).
C11_ShortLists ==
    stPc = "out" =>
        /\ Len(stIn) = 0 => stOut = <<>>
        /\ Len(stIn) = 1 => stOut = Trimmed(stIn[1])

\* one piece with whitespace before and after its words was stitched
C11_Witness ==
    /\ stPc = "out" /\ Len(stIn) = 1
    /\ stIn[1] # <<>> /\ Head(stIn[1]) \in Whitespace
    /\ stIn[1][Len(stIn[1])] \in Whitespace
    /\ stOut # <<>>

\* the empty list was stitched
C11_WitnessEmpty == stPc = "out" /\ stIn = <<>> /\ stOut = <<>>

\* ------------------------------------------------------------------------
\* Properties of the splitter
\* ------------------------------------------------------------------------
SplitReturned == spPc = "out" /\ spOut.end = "returned"

\* C1: every segment of the list returned by the splitter has a byte size no
\* larger than maxBytes, for every audio and every outcome of the duration
\* probes (a probe with no Duration line included).
C1_SegmentsWithinLimit ==
    SplitReturned => \A i \in 1..Len(spOut.segs) : spOut.segs[i].size <= spIn.maxBytes

\* C7: for an audio larger than maxBytes whose duration is probed at every
\* level, the spans of the returned segments, in list order, cover the whole
\* audio without a gap: the first starts at 0, the last ends at the duration,
\* and each starts no later than the one before it ends.
C7_SpansCoverAudio ==
    (SplitReturned /\ spIn.mp3.size > spIn.maxBytes /\ spIn.failing = {})
        => LET segs == spOut.segs
           IN /\ Len(segs) >= 1
              /\ segs[1].span[1] = 0
              /\ segs[Len(segs)].span[2] = spIn.mp3.dur
              /\ \A i \in 1..(Len(segs) - 1) : segs[i + 1].span[1] <= segs[i].span[2]

\* an oversized audio probed at every level was split twice over
C7_Witness ==
    /\ SplitReturned /\ spIn.mp3.size > spIn.maxBytes /\ spIn.failing = {}
    /\ Len(spOut.segs) >= 4

\* the side taken at the first cut where two file names part
RECURSIVE FirstSide(_, _)
FirstSide(f, g) ==
    IF f = <<>> \/ g = <<>> THEN "none"
    ELSE IF Head(f) # Head(g) THEN Head(f)[1]
    ELSE FirstSide(Tail(f), Tail(g))

\* C8: the returned list is in left-to-right temporal order: at every depth
\* the segments cut from the left half come before those cut from the right
\* half, and the start times never decrease along the list.
C8_TemporalOrder ==
    SplitReturned =>
        \A i, j \in 1..Len(spOut.segs) :
            i < j => /\ spOut.segs[i].span[1] <= spOut.segs[j].span[1]
                     /\ FirstSide(spOut.segs[i].filename, spOut.segs[j].filename) = "left"

\* a list of four segments or more was returned, some probe having failed or none
C8_Witness == SplitReturned /\ Len(spOut.segs) >= 4

\* C12: for an audio of at most maxBytes (maxBytes itself included) the
\* Split stage returns one segment, the whole audio, and asks the codec for
\* no duration probe and no cut.
C12_SmallAudioUnsplit ==
    (spPc = "out" /\ spIn.mp3.size <= spIn.maxBytes) =>
        /\ spOut.end = "returned"
        /\ Len(spOut.segs) = 1
        /\ spOut.segs[1].filename = OutputMp3
        /\ spOut.segs[1].size = spIn.mp3.size
        /\ spOut.segs[1].span = <<0, spIn.mp3.dur>>
        /\ spOut.probes = 0
        /\ spOut.cuts = 0

\* an audio of exactly maxBytes went through the Split stage
C12_Witness ==
    /\ spPc = "out" /\ spIn.mp3.size = spIn.maxBytes /\ spIn.mp3.dur > 0
    /\ Len(spOut.segs) = 1

\* the batches of n segments
Batches(n) == (n + concurrencyLimit - 1) \div concurrencyLimit

\* C13: a Transcribe stage that succeeds over N segments has set
\* ceil(N/10) - 1 timers of 60 s: a timer is set after a batch only when
\* segments remain, and a batch after the first is dispatched only by a
\* timer that fires.
C13_DelaysBetweenBatches ==
    [][\A t \in Tasks :
        /\ StageSucceeds(t) =>
              tasks[t].delays = Batches(Len(StageSegments(t))) - 1
        /\ (tasks[t].pc = "batch" /\ tasks'[t].pc = "delay") =>
              /\ tasks[t].i + concurrencyLimit < Len(tasks[t].segments)
              /\ tasks'[t].delays = tasks[t].delays + 1
        /\ (tasks[t].pc \in InTranscribe /\ tasks'[t].pc \in InTranscribe
                /\ tasks'[t].i # tasks[t].i) =>
              /\ tasks[t].pc = "delay"
              /\ tasks'[t].i = tasks[t].i + concurrencyLimit]_vars

\* a stage of exactly 10 segments has succeeded (no timer), and one of more
\* than 10 segments (one timer)
C13_Witness ==
    /\ ev.type = "done"
    /\ Len(intermediateData.transcripts) = concurrencyLimit
    /\ \A i \in 1..concurrencyLimit : intermediateData.transcripts[i] # <<>>

C13_WitnessTwoBatches ==
    /\ ev.type = "done"
    /\ Len(intermediateData.transcripts) > concurrencyLimit
    /\ \A i \in 1..Len(intermediateData.transcripts) : intermediateData.transcripts[i] # <<>>

\* a span given in half seconds
HalfSeconds(from, to) == <<(from * TicksPerSec) \div 2, (to * TicksPerSec) \div 2>>

SpansOf(segs) == [i \in 1..Len(segs) |-> segs[i].span]

\* the split of the audio of 600 s returned 4 segments, each two cuts deep
TenMinutesSplitInFour ==
    /\ spOut.end = "returned"
    /\ Len(spOut.segs) = 4
    /\ \A i \in 1..4 : Len(spOut.segs[i].filename) = 2

\* C14 as stated: for maxBytes = 1,000,000 and an audio of 3,500,000 bytes
\* and 600 s the splitter recurses to depth 2 and returns 4 segments with the
\* spans [0,153], [147,300], [300,453], [447,600].
C14_ScenarioSpans ==
    (spPc = "out" /\ spIn = TenMinutes) =>
        /\ TenMinutesSplitInFour
        /\ SpansOf(spOut.segs) = << HalfSeconds(0, 306), HalfSeconds(294, 600),
                                    HalfSeconds(600, 906), HalfSeconds(894, 1200) >>

\* C14 amended: the splitter recurses to depth 2 and returns 4 segments with
\* the spans [0,154.5], [148.5,303], [297,451.5], [445.5,600]: the halves
\* [0,303] and [297,600] of the first cut, each cut again 3 s past and 3 s
\* before its own midpoint.
C14_ScenarioSpansOfCuts ==
    (spPc = "out" /\ spIn = TenMinutes) =>
        /\ TenMinutesSplitInFour
        /\ SpansOf(spOut.segs) = << HalfSeconds(0, 309), HalfSeconds(297, 606),
                                    HalfSeconds(594, 903), HalfSeconds(891, 1200) >>
        /\ \A i \in 1..4 : spOut.segs[i].size = 901250

\* the audio of 600 s went through the splitter
C14_Witness == spPc = "out" /\ spIn = TenMinutes /\ Len(spOut.segs) = 4

\* the calls task t dispatches in this step
Dispatched(t) == tasks'[t].pending \ tasks[t].pending

\* the invocations of transcribeSegment task t starts in this step
Invoked(t) == tasks'[t].reading \ tasks[t].reading

\* C15: every call is made to the provider that is selected when the call
\* is dispatched: after a switch of provider during a Transcribe stage (during
\* the delay between two batches, say) the calls the stage dispatches go to
\* the new provider.
C15_ProviderAtDispatch ==
    [][\A t \in Tasks :
        Dispatched(t) # {} => tasks'[t].selectedApi = selectedApi']_vars

\* the texts the stage of task t has received: those of the batches done
\* and those of the calls of the running batch that have resolved
Received(c) ==
    {c.transcripts[i] : i \in 1..Len(c.transcripts)}
    \cup {c.batchResults[j - c.i] :
            j \in ((c.i + 1)..(c.i + Len(c.batchResults))) \ (c.pending \cup c.reading)}

Checkpointed(data) ==
    IF "transcripts" \in data.keys
    THEN {data.transcripts[i] : i \in 1..Len(data.transcripts)} ELSE {}

\* C16: when the call for a segment fails, the texts already received, in
\* earlier batches and in the failing batch, are in the checkpointed
\* intermediate data once the Transcribe stage has ended in error.
C16_ReceivedTextsKept ==
    [][\A t \in Tasks :
        (StageFails(t) /\ tasks[t].pc = "batch") =>
            Received(tasks[t]) \subseteq Checkpointed(intermediateData')]_vars

\* the awaits of the stages of a run
RunningStages == {"convert", "split", "batch", "delay"}

\* a run is started in this step: transcribeFile goes past its two tests
RunStarts == requests' = requests + 1 /\ ev'.request = "run"

\* C17: while a stage of a run is running no second run starts, neither by
\* the Transcribe File button nor by the auto-transcribe effect: no cleanup
\* and no mount of a new run comes between the stages of a run in progress.
C17_OneRunAtATime ==
    [][RunStarts => \A u \in Tasks : tasks[u].pc \notin RunningStages]_vars

\* task t, running the automatic cleanup, takes this step
AutoCleanupStep(t) ==
    /\ tasks[t].cleanup = "auto"
    /\ ev'.task = t /\ ev'.stage = "cleanup"
    /\ tasks'[t] # tasks[t]

\* C18: the Transcribe stage that succeeds goes on to the automatic
\* cleanup; the cleanup terminates the codec instance, changes neither the
\* stitched transcript nor the checkpoint, and ends, whether or not the new
\* instance could be made, with setup at success and the other stages idle.
C18_AutoCleanupAfterSuccess ==
    [][\A t \in Tasks :
        /\ StageSucceeds(t) =>
              /\ tasks'[t].pc = "unmount" /\ tasks'[t].cleanup = "auto"
              /\ transcriptionResult' = improvedStitchTranscriptions(intermediateData'.transcripts)
        /\ AutoCleanupStep(t) =>
              /\ transcriptionResult' = transcriptionResult
              /\ intermediateData' = intermediateData
              /\ tasks[t].pc \in {"unmount", "create"}
              /\ tasks[t].pc = "unmount" =>
                    /\ tasks'[t].pc = "create"
                    /\ tasks[t].ffmpeg # 0 => instances'[tasks[t].ffmpeg] = NoInstance
              /\ tasks[t].pc = "create" =>
                    /\ tasks'[t].pc = "free"
                    /\ stepStatus' = ResetStatus]_vars

\* an automatic cleanup has ended without a new instance: the transcript is
\* there, the progress display reset
C18_Witness ==
    /\ ev.stage = "cleanup" /\ ev.type = "step" /\ ev.request = "none"
    /\ \A t \in Tasks : tasks[t].pc = "free"
    /\ ffmpegRef = 0
    /\ transcriptionResult # <<>>
    /\ stepStatus = ResetStatus
    /\ pipelineStep = 4

\* a previous run has left a transcript, intermediate artifacts, segment
\* URLs or the status of a stage other than idle
LeftByPreviousRun ==
    \/ transcriptionResult # <<>>
    \/ intermediateData.keys # {}
    \/ segmentUrls # <<>>
    \/ \E k \in {"convert", "split", "transcribe", "summarize"} : stepStatus[k] # "idle"

\* task t, running the light cleanup of a new run, takes this step
LightCleanupStep(t) ==
    /\ tasks[t].cleanup = "light"
    /\ ev'.task = t /\ ev'.stage = "cleanup"
    /\ tasks'[t] # tasks[t]

\* C19: a run started over what a previous run has left begins with the
\* light cleanup and makes no codec call of its Convert stage before the
\* cleanup has ended: the instance is terminated first, and the conversion
\* starts in the step that ends the cleanup, the artifacts cleared, on the
\* instance the codec reference then holds.
C19_LightCleanupBeforeConvert ==
    [][\A t \in Tasks :
        /\ (RunStarts /\ ev'.task = t /\ LeftByPreviousRun) =>
              /\ tasks'[t].pc = "unmount" /\ tasks'[t].cleanup = "light"
              /\ NoCodecCall
        /\ LightCleanupStep(t) =>
              /\ tasks[t].pc \in {"unmount", "create"}
              /\ tasks[t].pc = "unmount" =>
                    /\ tasks'[t].pc = "create"
                    /\ tasks[t].ffmpeg # 0 => instances'[tasks[t].ffmpeg] = NoInstance
              /\ tasks[t].pc = "create" =>
                    /\ tasks'[t].pc \in {"convert", "free"}
                    /\ intermediateData' = EmptyData
                    /\ segmentUrls' = <<>>
                    /\ transcriptionResult' = <<>>
                    /\ tasks'[t].pc = "convert" => tasks'[t].ffmpeg = ffmpegRef'
        /\ (tasks[t].pc = "unmount" /\ tasks[t].cleanup = "light") => tasks'[t].pc # "convert"]_vars

\* the light cleanup of a run started over a finished run has ended and the
\* conversion waits on the new instance
C19_Witness ==
    \E t \in Tasks :
        /\ ev.task = t /\ ev.stage = "cleanup"
        /\ tasks[t].pc = "convert"
        /\ tasks[t].ffmpeg = ffmpegRef /\ ffmpegRef # 0
        /\ intermediateData = EmptyData
        /\ requests >= 2

\* C20: stages never proceed out of order: whenever Split is running
\* Convert has status success, and whenever Transcribe is running Convert
\* and Split have status success.
C20_StagesInOrder ==
    /\ stepStatus.split = "loading" => stepStatus.convert = "success"
    /\ stepStatus.transcribe = "loading" =>
          (stepStatus.convert = "success" /\ stepStatus.split = "success")

\* C21: for an audio whose probed duration is 0, and for an empty audio,
\* the Split stage returns exactly one segment, an empty one, also when the
\* audio is larger than maxBytes.
C21_ZeroDurationOneSegment ==
    (spPc = "out" /\ spIn.mp3.dur = 0 /\ spIn.failing = {}) =>
        /\ spOut.end = "returned"
        /\ Len(spOut.segs) = 1
        /\ spOut.segs[1].span = <<0, 0>>

\* C22: the splitter terminates on every audio larger than maxBytes whose
\* duration is probed: no call is made on a cut as long as its parent, also
\* when the parent lasts 6 s or less.
C22_SplitterTerminates ==
    (spPc = "out" /\ spIn.mp3.size > spIn.maxBytes /\ spIn.failing = {})
        => spOut.end # "loops"

\* C23: within a Transcribe stage no call of batch k+1 is dispatched before
\* every call of batch k has completed and the delay after batch k has
\* elapsed: a step invokes the transcription of segments of one batch only,
\* the first batch when the stage starts, a later one by the timer of the
\* batch before it, when nothing of that batch is waiting and the texts of
\* all earlier segments are in; and a call is dispatched only for a segment
\* of the batch invoked last, when its file has been read.
C23_BatchAfterBatch ==
    [][\A t \in Tasks :
        /\ Invoked(t) # {} =>
              /\ Invoked(t) \subseteq
                     (tasks'[t].i + 1)..(tasks'[t].i + concurrencyLimit)
              /\ tasks[t].pending = {} /\ tasks[t].reading = {}
              /\ Len(tasks'[t].transcripts) = tasks'[t].i
              /\ IF tasks[t].pc \in InTranscribe
                 THEN /\ tasks[t].pc = "delay"
                      /\ tasks'[t].i = tasks[t].i + concurrencyLimit
                 ELSE tasks'[t].i = 0
        /\ Dispatched(t) # {} =>
              /\ Dispatched(t) \subseteq tasks[t].reading
              /\ Dispatched(t) \subseteq
                     (tasks[t].i + 1)..(tasks[t].i + concurrencyLimit)
              /\ tasks[t].pc = "batch" /\ tasks'[t].i = tasks[t].i
              /\ Len(tasks[t].transcripts) = tasks[t].i]_vars

\* the calls of a second batch are in flight, the texts of the first are in
C23_Witness ==
    \E t \in Tasks :
        /\ tasks[t].pc = "batch"
        /\ tasks[t].i = concurrencyLimit
        /\ tasks[t].pending # {}
        /\ Len(tasks[t].transcripts) = concurrencyLimit
        /\ \A j \in 1..concurrencyLimit : tasks[t].transcripts[j] # <<>>

\* the stages before and after a stage
Earlier(step) == {k \in StepNames : stepIndexMap[k] < stepIndexMap[step]}

Later(step) == {k \in StepNames : stepIndexMap[k] > stepIndexMap[step]}

\* C24: a retry from stage X sets the status of X and of every later stage
\* to idle before X is executed again, and leaves the status and the
\* checkpointed artifact of every earlier stage as they were: once the
\* handler has run to its first await, a stage after X has a status other
\* than idle only when the execution has gone successfully through X and the
\* stages between them, and the earlier stages are untouched.
C24_RetryResetsLaterStages ==
    [][\A step \in StepNames :
        Retries(step) =>
            /\ \A k \in Earlier(step) : stepStatus'[k] = stepStatus[k]
            /\ \A k \in Later(step) :
                  stepStatus'[k] # "idle" =>
                      \A j \in Earlier(k) \ Earlier(step) : stepStatus'[j] = "success"
            /\ "convert" \in Earlier(step) =>
                  /\ ("convertedMp3" \in intermediateData'.keys)
                        = ("convertedMp3" \in intermediateData.keys)
                  /\ intermediateData'.convertedMp3 = intermediateData.convertedMp3
            /\ "split" \in Earlier(step) =>
                  /\ ("segments" \in intermediateData'.keys)
                        = ("segments" \in intermediateData.keys)
                  /\ intermediateData'.segments = intermediateData.segments]_vars

\* Split runs again on the checkpointed audio after a retry, Transcribe is
\* idle again and Convert still has its success and its artifact
C24_Witness ==
    /\ ev.request = "split" /\ ev.type = "step"
    /\ tasks[ev.task].pc = "split"
    /\ stepStatus.split = "loading"
    /\ stepStatus.transcribe = "idle"
    /\ stepStatus.convert = "success"
    /\ "convertedMp3" \in intermediateData.keys

\* the candidate overlap lengths findBestOverlap goes through
Candidates(prevWords, currWords) ==
    {c \in MinOverlap..MaxOverlap : c <= Len(prevWords) /\ c <= Len(currWords)}

\* C25: when several candidate overlap lengths reach the same highest
\* score, the overlap search selects the largest of them: no candidate
\* longer than the selected one has a score as high as the selected one.
C25_TiesFavorLargest ==
    (stPc = "out" /\ Len(stIn) = 2) =>
        LET prevWindow == SliceLast(split(trim(stIn[1])), WindowWords)
            currWords == split(stIn[2])
            best == findBestOverlap(prevWindow, currWords, MinOverlap, MaxOverlap)
        IN best.overlapCount > 0 =>
              \A c \in Candidates(prevWindow, currWords) :
                  c > best.overlapCount =>
                      ScoreGreater(best.score, CandidateScore(prevWindow, currWords, c))

\* C26: whenever no stage is loading, transcribing is false, so that the
\* trigger is enabled again after a run has ended for any reason, in success
\* or in an error of Convert, Split or Transcribe (stated for the states
\* where no handler is waiting: a cleanup that still runs is left its time).
C26_IdleMeansNotTranscribing ==
    (~isAnyStepLoading(State) /\ \A t \in Tasks : tasks[t].pc = "free")
        => ~transcribing

\* C27: whenever loaded is true, ffmpegRef.current is a loaded instance
\* that has not been terminated, after any sequence of runs and cleanups,
\* the cleanups whose replacement instance cannot be created included
\* (stated for the states where no cleanup is waiting for its new instance).
C27_LoadedMeansLiveInstance ==
    (loaded /\ \A t \in Tasks : tasks[t].pc # "create")
        => Alive(State, ffmpegRef)

Providers == {"groq", "openai"}

\* C28: whenever the Transcribe stage ends in success, every piece passed
\* to the stitcher is the text a provider call returned for its segment; in
\* particular the stage does not end in success with an empty API key.
C28_PiecesFromProvider ==
    [][\A t \in Tasks :
        StageSucceeds(t) =>
            LET segs == StageSegments(t)
                pieces == intermediateData'.transcripts
            IN /\ Len(pieces) = Len(segs)
               /\ \A i \in 1..Len(segs) :
                     \E api \in Providers : pieces[i] = ProviderText(api, segs[i].filename)]_vars

\* C29: a retry of Convert whose input is missing (the file was removed
\* after the failure) ends with Convert in error status, not at idle.
C29_RetryConvertWithoutInput ==
    [][(Retries("convert") /\ inputFile = NoFile) =>
            stepStatus'.convert = "error"]_vars

\* A followed by B without its first d words, B as it is when d = 0
AppendedWithout(A, B, d) ==
    trim(trim(A) \o <<" ">> \o (IF d = 0 THEN B ELSE join(SliceFrom(split(B), d))))

\* C30: for two adjacent pieces the number of leading words dropped from
\* the later piece is 0 or between 5 and 10: only the last 10 words of the
\* text stitched so far are compared, so an overlap of 11 to 20 words is
\* never evaluated.
C30_DroppedWordsWithinWindow ==
    (stPc = "out" /\ Len(stIn) = 2) =>
        \E d \in {0} \cup (5..10) :
            stOut = AppendedWithout(stIn[1], stIn[2], d)

\* two pieces that share more words than the window holds were stitched, and
\* no word was dropped: the shared words are there twice
C30_Witness ==
    /\ stPc = "out" /\ Len(stIn) = 2
    /\ SharesWords(stIn[1], stIn[2], LongOverlapWords)
    /\ stOut = AppendedWithout(stIn[1], stIn[2], 0)
    /\ Len(Words(stOut)) = Len(Words(stIn[1])) + Len(Words(stIn[2]))

\* two pieces were stitched and 8 words dropped from the second
C30_WitnessDropped ==
    /\ stPc = "out" /\ Len(stIn) = 2
    /\ stOut = AppendedWithout(stIn[1], stIn[2], OverlapWords)
    /\ stOut # AppendedWithout(stIn[1], stIn[2], 0)

====
